---- MODULE Spec2Model ----
(***************************************************************************)
(* Waste-risk scoring and recommendation engine of the food waste          *)
(* prediction system (src/utils/waste_predictor.py, src/utils/recommender  *)
(* .py, src/models.py).                                                    *)
(*                                                                         *)
(* Quantities and stored scores are Numeric(_, 2) columns: the model holds *)
(* them as integers counting hundredths.  The code converts them with      *)
(* float() and computes in IEEE-754 binary64; the model does the same      *)
(* arithmetic, bit for bit (round to nearest, ties to even), on a 53-bit   *)
(* mantissa kept in three limbs.  Dates are day numbers.                   *)
(***************************************************************************)
EXTENDS Integers, Sequences, FiniteSets, TLC

VARIABLES
    food_item,  \* the FoodItem the functions are applied to
    today,      \* the current date
    last,       \* the function called last, "none" before any call
    args,       \* the arguments of that call besides the item
    ret,        \* what that call returned or raised
    calls,      \* the calls made so far, each with the date and the item it saw
    db          \* the rows of the household: its items and its alerts

vars == <<food_item, today, last, args, ret, calls, db>>

(***************************************************************************)
(* Natural numbers below 2^60 and more, as <<h, m, l>> = h*2^40 + m*2^20   *)
(* + l with m, l < 2^20.                                                   *)
(***************************************************************************)
Limb == 2^20
Radix == 2^10

BNorm(h, m, l) ==
    LET m2 == m + (l \div Limb)
    IN  <<h + (m2 \div Limb), m2 % Limb, l % Limb>>

BZero == <<0, 0, 0>>
BOne == <<0, 0, 1>>
BFromInt(n) == BNorm(0, 0, n)
BMulSmall(b, k) == BNorm(k * b[1], k * b[2], k * b[3])
BAdd(a, b) == BNorm(a[1] + b[1], a[2] + b[2], a[3] + b[3])
BLess(a, b) ==
    \/ a[1] < b[1]
    \/ a[1] = b[1] /\ a[2] < b[2]
    \/ a[1] = b[1] /\ a[2] = b[2] /\ a[3] < b[3]
BSub(a, b) ==
    LET bl == IF a[3] < b[3] THEN 1 ELSE 0
        bm == IF a[2] - bl < b[2] THEN 1 ELSE 0
    IN  <<a[1] - b[1] - bm, a[2] - bl - b[2] + bm * Limb, a[3] - b[3] + bl * Limb>>
\* <<quotient, remainder>> of b by a small k
BDivSmall(b, k) ==
    LET t == (b[1] % k) * Limb + b[2]
        u == (t % k) * Limb + b[3]
    IN  <<(<<b[1] \div k, t \div k, u \div k>>), u % k>>

RECURSIVE BShl(_, _)
BShl(b, n) == IF n = 0 THEN b ELSE BShl(BMulSmall(b, 2), n - 1)

\* <<quotient, sticky>> of a BDivSmall result qr, given the sticky flag so far
WithSticky(qr, sticky) == <<qr[1], sticky \/ qr[2] # 0>>

\* s = <<b, sticky>>: b shifted right by n bits; sticky: a nonzero bit was dropped
RECURSIVE BShr(_, _)
BShr(s, n) ==
    IF n = 0 THEN s
    ELSE LET k == IF n >= 10 THEN 10 ELSE n
         IN  BShr(WithSticky(BDivSmall(s[1], 2^k), s[2]), n - k)

\* s = <<b, k>>: b without its trailing zero bits, k the number of bits dropped
RECURSIVE OddPart(_)
OddPart(s) ==
    IF s[1] = BZero THEN s
    ELSE IF s[1][3] % Radix = 0 THEN OddPart(<<BDivSmall(s[1], Radix)[1], s[2] + 10>>)
    ELSE IF s[1][3] % 2 = 0 THEN OddPart(<<BDivSmall(s[1], 2)[1], s[2] + 1>>)
    ELSE s

(***************************************************************************)
(* binary64 values >= 0: [man, exp] stands for man * 2^exp, with man = 0   *)
(* or 2^52 <= man < 2^53.  The values of this program stay far from the    *)
(* subnormal and overflow ranges, which are not modelled.                  *)
(***************************************************************************)
Two52 == <<4096, 0, 0>>
Two53 == <<8192, 0, 0>>
FZero == [man |-> BZero, exp |-> 0]

\* s = <<b, k>>: b scaled up by powers of two until b >= 2^52, k the shift
RECURSIVE ScaleUp(_)
ScaleUp(s) ==
    IF s[1][1] >= 4096 THEN s
    ELSE LET k == IF s[1][1] < 4 THEN 10 ELSE IF s[1][1] < 128 THEN 5 ELSE 1
         IN  ScaleUp(<<BMulSmall(s[1], 2^k), s[2] + k>>)

\* s = <<n, d, e>>, keeping (n/d) * 2^e, until d <= n < 2d
RECURSIVE Align(_)
Align(s) ==
    IF BLess(s[1], s[2]) THEN Align(<<BMulSmall(s[1], 2), s[2], s[3] - 1>>)
    ELSE IF ~BLess(s[1], BMulSmall(s[2], 2)) THEN Align(<<s[1], BMulSmall(s[2], 2), s[3] + 1>>)
    ELSE s

\* <<n, d, e>> from the scaled numerator sn and denominator sd
AlignStart(sn, sd, e) == <<sn[1], sd[1], e + sd[2] - sn[2]>>

\* s = <<digit, r>>: raise the estimated quotient digit until r < d
RECURSIVE Correct(_, _)
Correct(s, d) ==
    IF BLess(s[2], d) THEN s ELSE Correct(<<s[1] + 1, BSub(s[2], d)>>, d)

\* <<digit, r>>: a lower estimate of the next base-1024 digit of r10 / d
Estimate(r10, d) ==
    LET est == r10[1] \div (d[1] + 1)
    IN  <<est, BSub(r10, BMulSmall(d, est))>>

\* the quotient q extended by the digit c = <<digit, r>>
Digit(q, c) == <<BAdd(BMulSmall(q, Radix), BFromInt(c[1])), c[2]>>

\* k further base-1024 digits of the quotient; s = <<q, r>>, r < d, d >= 2^52
RECURSIVE LongDiv(_, _, _)
LongDiv(s, d, k) ==
    IF k = 0 THEN s
    ELSE LongDiv(Digit(s[1], Correct(Estimate(BMulSmall(s[2], Radix), d), d)), d, k - 1)

\* the 53-bit m1 at exponent e, renormalised when the rounding carried
Pack(m1, e) ==
    IF m1 = Two53 THEN [man |-> Two52, exp |-> e - 51]
    ELSE [man |-> m1, exp |-> e - 52]

\* ml = <<53-bit mantissa, the 8 bits below it>>: round to nearest, ties to even
RoundMantissa(ml, inexact, e) ==
    LET up == \/ ml[2] > 128
              \/ ml[2] = 128 /\ (inexact \/ ml[1][3] % 2 = 1)
    IN  Pack(IF up THEN BAdd(ml[1], BOne) ELSE ml[1], e)

\* qr = <<61-bit quotient, remainder>>
RoundQuotient(qr, e) == RoundMantissa(BDivSmall(qr[1], 256), qr[2] # BZero, e)

\* a = <<n, d, e>> with d <= n < 2d
RoundAligned(a) == RoundQuotient(LongDiv(<<BOne, BSub(a[1], a[2])>>, a[2], 6), a[3])

\* the binary64 value nearest to (n/d) * 2^e, ties to even (n, d < 2^60, d > 0)
Round(n, d, e) ==
    IF n = BZero THEN FZero
    ELSE RoundAligned(Align(AlignStart(ScaleUp(<<n, 0>>), ScaleUp(<<d, 0>>), e)))

\* s = <<man, k>> from ScaleUp: man * 2^-k
Scaled(s) == [man |-> s[1], exp |-> 0 - s[2]]

\* float(k) of an int k >= 0: exact
FInt(k) == IF k = 0 THEN FZero ELSE Scaled(ScaleUp(<<BFromInt(k), 0>>))

\* float(Decimal) of n hundredths: the nearest binary64 value
FHundredths(n) == Round(BFromInt(n), BFromInt(100), 0)

\* A float written to a Numeric(5, 2) column, in hundredths: the nearest
\* hundredth, a half going up.
Numeric(x) ==
    IF x.man = BZero THEN 0
    ELSE (BShr(<<BMulSmall(x.man, 100), FALSE>>, 0 - x.exp - 1)[1][3] + 1) \div 2

\* x / y, y # 0
FDiv(x, y) == Round(x.man, y.man, x.exp - y.exp)

\* ox, oy: the odd parts of x.man and y.man.  One factor has at most ten
\* significant bits (every product of the program has an int or a literal
\* such as 1.5 as a factor); the other mantissa is multiplied by it.
FMulOdd(x, y, ox, oy) ==
    LET small == oy[1][1] = 0 /\ oy[1][2] = 0 /\ oy[1][3] < Radix
    IN  Round(BMulSmall(IF small THEN x.man ELSE y.man,
                        IF small THEN oy[1][3]
                        ELSE ox[1][3] + Limb * (ox[1][2] + Limb * ox[1][1])),
              BOne,
              x.exp + y.exp + (IF small THEN oy[2] ELSE ox[2]))

\* x * y
FMul(x, y) == FMulOdd(x, y, OddPart(<<x.man, 0>>), OddPart(<<y.man, 0>>))

\* sh = <<mantissa, sticky>>: the sticky flag goes into the lowest bit
Jam(sh) == IF sh[2] /\ sh[1][3] % 2 = 0 THEN BAdd(sh[1], BOne) ELSE sh[1]

\* x + sh * 2^e, e <= x.exp
FAddShifted(x, sh, e) == Round(BAdd(BShl(x.man, x.exp - e), Jam(sh)), BOne, e)

\* x + y with y's lowest `drop' bits folded into a sticky bit
FAddGuarded(x, y, drop) == FAddShifted(x, BShr(<<y.man, FALSE>>, drop), y.exp + drop)

\* x + y for p = <<x, y>>, x.exp >= y.exp, both nonzero: seven guard bits
FAddOrdered(p) ==
    FAddGuarded(p[1], p[2], IF p[1].exp - p[2].exp > 7 THEN p[1].exp - p[2].exp - 7 ELSE 0)

FAdd(x, y) ==
    IF x.man = BZero THEN y
    ELSE IF y.man = BZero THEN x
    ELSE FAddOrdered(IF x.exp >= y.exp THEN <<x, y>> ELSE <<y, x>>)

\* x < y
FLess(x, y) ==
    IF y.man = BZero THEN FALSE
    ELSE IF x.man = BZero THEN TRUE
    ELSE \/ x.exp < y.exp
         \/ x.exp = y.exp /\ BLess(x.man, y.man)

(***************************************************************************)
(* Python values.  None is the empty tuple and a present value v is <<v>>, *)
(* so that an optional int can be compared with None.  A call returns      *)
(* Return(v), or Raise(e) when an exception leaves it.                     *)
(***************************************************************************)
None == <<>>
Some(v) == <<v>>
Return(v) == [exc |-> "", val |-> v]
Raise(e) == [exc |-> e, val |-> FZero]

\* x / y of two floats
TrueDiv(x, y) ==
    IF y.man = BZero THEN Raise("ZeroDivisionError") ELSE Return(FDiv(x, y))

\* float literals of the source
F_0_40 == [man |-> <<6553, 629145, 629146>>, exp |-> -54]  \* 0x1.999999999999ap-2
F_0_30 == [man |-> <<4915, 209715, 209715>>, exp |-> -54]  \* 0x1.3333333333333p-2
F_0_20 == [man |-> <<6553, 629145, 629146>>, exp |-> -55]  \* 0x1.999999999999ap-3
F_0_10 == [man |-> <<6553, 629145, 629146>>, exp |-> -56]  \* 0x1.999999999999ap-4
F_1_5 == [man |-> <<6144, 0, 0>>, exp |-> -52]             \* 0x1.8p+0
F_0_8 == [man |-> <<6553, 629145, 629146>>, exp |-> -53]   \* 0x1.999999999999ap-1
F_0_5 == [man |-> <<4096, 0, 0>>, exp |-> -53]             \* 0x1.0p-1

(***************************************************************************)
(* models.py: a FoodItem row with its category and its consumption logs.   *)
(* quantity, initial_quantity, waste_risk_score and the logs'               *)
(* quantity_consumed are Numeric(_, 2) and count hundredths.               *)
(***************************************************************************)
\* FoodItem.days_until_expiry
days_until_expiry(item) ==
    IF item.expiry_date # None THEN Some(item.expiry_date[1] - today) ELSE None

RECURSIVE SumFloats(_, _)
SumFloats(acc, logs) ==
    IF logs = <<>> THEN acc
    ELSE SumFloats(FAdd(acc, FHundredths(Head(logs))), Tail(logs))

\* FoodItem.consumption_rate
consumption_rate(item) ==
    IF item.consumption_logs = <<>> THEN Return(FZero)
    ELSE LET days_since_purchase == today - item.purchase_date
         IN  IF days_since_purchase <= 0 THEN Return(FZero)
             ELSE TrueDiv(SumFloats(FZero, item.consumption_logs), FInt(days_since_purchase))

(***************************************************************************)
(* waste_predictor.py                                                      *)
(***************************************************************************)
SHELF_LIFE_WEIGHT == F_0_40
CONSUMPTION_WEIGHT == F_0_30
QUANTITY_WEIGHT == F_0_20
PERISHABILITY_WEIGHT == F_0_10

\* variant: the 0..2 bucket loses its upper edge
_calculate_shelf_life_risk_strict(item) ==
    LET d == days_until_expiry(item)
    IN  IF d = None THEN Return(50)
        ELSE IF d[1] < 0 THEN Return(100)
        ELSE IF d[1] < 2 THEN Return(90)
        ELSE IF d[1] <= 5 THEN Return(70)
        ELSE IF d[1] <= 10 THEN Return(50)
        ELSE IF d[1] <= 20 THEN Return(30)
        ELSE Return(10)

\* variant: more than 20 days away counts as the default medium risk
_calculate_shelf_life_risk_far_default(item) ==
    LET d == days_until_expiry(item)
    IN  IF d = None THEN Return(50)
        ELSE IF d[1] < 0 THEN Return(100)
        ELSE IF d[1] <= 2 THEN Return(90)
        ELSE IF d[1] <= 5 THEN Return(70)
        ELSE IF d[1] <= 10 THEN Return(50)
        ELSE IF d[1] <= 20 THEN Return(30)
        ELSE Return(50)

\* variant: the values of the critical and the high zone change places
_calculate_shelf_life_risk_zones_swapped(item) ==
    LET d == days_until_expiry(item)
    IN  IF d = None THEN Return(50)
        ELSE IF d[1] < 0 THEN Return(100)
        ELSE IF d[1] <= 2 THEN Return(70)
        ELSE IF d[1] <= 5 THEN Return(90)
        ELSE IF d[1] <= 10 THEN Return(50)
        ELSE IF d[1] <= 20 THEN Return(30)
        ELSE Return(10)

_calculate_shelf_life_risk(item) ==
    LET d == days_until_expiry(item)
    IN  IF d = None THEN Return(50)
        ELSE IF d[1] < 0 THEN Return(100)
        ELSE IF d[1] <= 2 THEN Return(90)
        ELSE IF d[1] <= 5 THEN Return(70)
        ELSE IF d[1] <= 10 THEN Return(50)
        ELSE IF d[1] <= 20 THEN Return(30)
        ELSE Return(10)

\* the comparison chain on days_to_consume
ConsumptionBuckets(days_to_consume, d) ==
    IF FLess(FMul(FInt(d), F_1_5), days_to_consume) THEN 90
    ELSE IF FLess(FInt(d), days_to_consume) THEN 70
    ELSE IF FLess(FMul(FInt(d), F_0_8), days_to_consume) THEN 50
    ELSE 20

\* _calculate_consumption_risk from the division on
ConsumptionByDays(days_to_consume, d) ==
    IF days_to_consume.exc # "" THEN days_to_consume
    ELSE Return(ConsumptionBuckets(days_to_consume.val, d))

\* _calculate_consumption_risk once its three locals are read.  The rate is
\* never negative, so the `else 999' of the division is not taken.
\* variant: an expiry that has passed is not looked at
ConsumptionByRate_past_expiry(item, rate, remaining_quantity, d) ==
    IF rate.exc # "" THEN rate
    ELSE IF d = None THEN Return(100)
    ELSE IF rate.val.man = BZero
    THEN IF today - item.purchase_date > 3 THEN Return(80) ELSE Return(50)
    ELSE ConsumptionByDays(TrueDiv(remaining_quantity, rate.val), d[1])

ConsumptionByRate(item, rate, remaining_quantity, d) ==
    IF rate.exc # "" THEN rate
    ELSE IF d = None \/ d[1] <= 0 THEN Return(100)
    ELSE IF rate.val.man = BZero
    THEN IF today - item.purchase_date > 3 THEN Return(80) ELSE Return(50)
    ELSE ConsumptionByDays(TrueDiv(remaining_quantity, rate.val), d[1])

_calculate_consumption_risk(item) ==
    ConsumptionByRate(item, consumption_rate(item), FHundredths(item.quantity),
                      days_until_expiry(item))

\* the comparison chain on percentage_remaining
QuantityBuckets(percentage_remaining) ==
    IF FLess(FInt(80), percentage_remaining) THEN 70
    ELSE IF FLess(FInt(60), percentage_remaining) THEN 50
    ELSE IF FLess(FInt(40), percentage_remaining) THEN 30
    ELSE IF FLess(FInt(20), percentage_remaining) THEN 15
    ELSE 5

\* _calculate_quantity_risk from the division on
QuantityByRatio(ratio) ==
    IF ratio.exc # "" THEN ratio
    ELSE Return(QuantityBuckets(FMul(ratio.val, FInt(100))))

\* _calculate_quantity_risk once its two locals are read
QuantityByFloats(remaining_quantity, initial_quantity) ==
    IF initial_quantity.man = BZero THEN Return(0)
    ELSE QuantityByRatio(TrueDiv(remaining_quantity, initial_quantity))

\* variant: the division is not guarded
_calculate_quantity_risk_unguarded(item) ==
    QuantityByRatio(TrueDiv(FHundredths(item.quantity), FHundredths(item.initial_quantity)))

\* variant: a zero initial quantity counts as 0 percent remaining
_calculate_quantity_risk_zero_percent(item) ==
    IF item.initial_quantity = 0 THEN Return(QuantityBuckets(FZero))
    ELSE _calculate_quantity_risk_unguarded(item)

_calculate_quantity_risk(item) ==
    QuantityByFloats(FHundredths(item.quantity), FHundredths(item.initial_quantity))

\* variant: a highly perishable category carries the full risk
_calculate_perishability_risk_high_full(item) ==
    IF item.category.perishability_level = "High" THEN Return(100)
    ELSE IF item.category.perishability_level = "Medium" THEN Return(50)
    ELSE Return(20)

_calculate_perishability_risk(item) ==
    IF item.category.perishability_level = "High" THEN Return(80)
    ELSE IF item.category.perishability_level = "Medium" THEN Return(50)
    ELSE Return(20)

\* min(100, max(0, risk_score)); the ints 0 and 100 are returned as floats
Clamp(risk_score) ==
    IF ~FLess(FZero, risk_score) THEN FZero
    ELSE IF FLess(risk_score, FInt(100)) THEN risk_score
    ELSE FInt(100)

\* variant: the shelf-life and consumption weights change places
WeightedSum_swapped(shelf, consumption, quantity, perishability) ==
    FAdd(FAdd(FAdd(FMul(FInt(shelf), CONSUMPTION_WEIGHT),
                   FMul(FInt(consumption), SHELF_LIFE_WEIGHT)),
              FMul(FInt(quantity), QUANTITY_WEIGHT)),
         FMul(FInt(perishability), PERISHABILITY_WEIGHT))

WeightedSum(shelf, consumption, quantity, perishability) ==
    FAdd(FAdd(FAdd(FMul(FInt(shelf), SHELF_LIFE_WEIGHT),
                   FMul(FInt(consumption), CONSUMPTION_WEIGHT)),
              FMul(FInt(quantity), QUANTITY_WEIGHT)),
         FMul(FInt(perishability), PERISHABILITY_WEIGHT))

\* The frame of a call: what it returns or raises, and the four locals (0
\* while unassigned).
Frame(result, shelf, consumption, quantity, perishability) ==
    [exc |-> result.exc, val |-> result.val,
     shelf_life_risk |-> shelf, consumption_risk |-> consumption,
     quantity_risk |-> quantity, perishability_risk |-> perishability]

\* calculate_waste_risk from the four sub-risk calls on: the first exception
\* leaves the call, otherwise the clamped weighted sum is returned
Weigh(s, c, q, p) ==
    IF s.exc # "" THEN Frame(s, 0, 0, 0, 0)
    ELSE IF c.exc # "" THEN Frame(c, s.val, 0, 0, 0)
    ELSE IF q.exc # "" THEN Frame(q, s.val, c.val, 0, 0)
    ELSE IF p.exc # "" THEN Frame(p, s.val, c.val, q.val, 0)
    ELSE Frame(Return(Clamp(WeightedSum(s.val, c.val, q.val, p.val))),
               s.val, c.val, q.val, p.val)

\* calculate_waste_risk past its status test
ScoreActive(item) ==
    Weigh(_calculate_shelf_life_risk(item), _calculate_consumption_risk(item),
          _calculate_quantity_risk(item), _calculate_perishability_risk(item))

\* variant: the status is not looked at
calculate_waste_risk_any_status(item) == ScoreActive(item)

calculate_waste_risk(item) ==
    IF item.status # "Active" THEN Frame(Return(FZero), 0, 0, 0, 0)
    ELSE ScoreActive(item)

get_risk_level(risk_score) ==
    IF ~FLess(risk_score, FInt(70)) THEN Return("High")
    ELSE IF ~FLess(risk_score, FInt(40)) THEN Return("Medium")
    ELSE Return("Low")

\* variant: exactly 70 is not yet red
get_risk_color_above(risk_score) ==
    IF FLess(FInt(70), risk_score) THEN Return("danger")
    ELSE IF ~FLess(risk_score, FInt(40)) THEN Return("warning")
    ELSE Return("success")

get_risk_color(risk_score) ==
    IF ~FLess(risk_score, FInt(70)) THEN Return("danger")
    ELSE IF ~FLess(risk_score, FInt(40)) THEN Return("warning")
    ELSE Return("success")

\* the default of should_generate_alert's threshold parameter
DefaultThreshold == 40

\* should_generate_alert once its two locals are read
AlertFor(risk_score, d, threshold) ==
    IF ~FLess(risk_score, FInt(threshold)) THEN Return(TRUE)
    ELSE IF d # None /\ d[1] <= 3 THEN Return(TRUE)
    ELSE IF d # None /\ d[1] < 0 THEN Return(TRUE)
    ELSE Return(FALSE)

\* variant: the score has to exceed the threshold
should_generate_alert_above(item, threshold) ==
    LET risk_score == FHundredths(item.waste_risk_score)
        d == days_until_expiry(item)
    IN  IF FLess(FInt(threshold), risk_score) THEN Return(TRUE)
        ELSE IF d # None /\ d[1] <= 3 THEN Return(TRUE)
        ELSE Return(FALSE)

should_generate_alert(item, threshold) ==
    AlertFor(FHundredths(item.waste_risk_score), days_until_expiry(item), threshold)

(***************************************************************************)
(* recommender.py.  An f-string is kept as its template, the item's name   *)
(* and the values filled in.                                               *)
(***************************************************************************)
Text(template, name, params) == [template |-> template, name |-> name, params |-> params]

PRESERVATION_METHODS ==
    ("Vegetables" :> << "Store in crisper drawer with proper humidity",
                        "Blanch and freeze for long-term storage",
                        "Make vegetable soup or stir-fry",
                        "Pickle or ferment for extended shelf life" >>)
    @@ ("Fruits" :> << "Freeze for smoothies or baking",
                       "Make fruit jam or compote",
                       "Dehydrate for fruit chips",
                       "Store separately from ethylene-sensitive items" >>)
    @@ ("Dairy" :> << "Freeze milk, cheese, or butter",
                      "Make yogurt or cheese",
                      "Use in baking or cooking",
                      "Store in coldest part of refrigerator" >>)
    @@ ("Meat" :> << "Freeze immediately if not using soon",
                     "Cook and refrigerate for meal prep",
                     "Marinate for extended flavor and life",
                     "Store in coldest part of refrigerator" >>)
    @@ ("Fish" :> << "Freeze immediately if not using within 24 hours",
                     "Cook and use in salads or pasta",
                     "Smoke or cure for preservation",
                     "Store on ice in refrigerator" >>)
    @@ ("Bread & Bakery" :> << "Freeze sliced bread for freshness",
                               "Make bread crumbs or croutons",
                               "Toast or make French toast",
                               "Store in paper bag at room temperature" >>)
    @@ ("Grains" :> << "Store in airtight containers",
                       "Keep in cool, dry place",
                       "Cook in batches for meal prep",
                       "Check for moisture or pests regularly" >>)

RECIPE_SUGGESTIONS ==
    ("Vegetables" :> << "Vegetable stir-fry with rice", "Mixed vegetable curry",
                        "Vegetable soup", "Roasted vegetable medley",
                        "Vegetable fried rice" >>)
    @@ ("Fruits" :> << "Fruit smoothie", "Fruit salad", "Baked fruit dessert",
                       "Fresh fruit juice", "Fruit yogurt parfait" >>)
    @@ ("Dairy" :> << "Cheese omelette", "Creamy pasta sauce", "Homemade ice cream",
                      "Yogurt-based smoothie", "Cheese-stuffed dishes" >>)
    @@ ("Meat" :> << "Stir-fried meat with vegetables", "Meat curry",
                     "Grilled meat skewers", "Meat fried rice", "Meat soup" >>)
    @@ ("Bread & Bakery" :> << "French toast", "Bread pudding", "Garlic bread",
                               "Sandwiches", "Bread pizza" >>)

\* seq[:2]
FirstTwo(seq) == SubSeq(seq, 1, IF Len(seq) < 2 THEN Len(seq) ELSE 2)

Entry(type, priority, text) == [type |-> type, priority |-> priority, text |-> text]

\* the Use Soon entry of the urgent tier
UrgentUseSoon(item, d) ==
    IF d # None /\ d[1] < 0
    THEN Entry("Use Soon", 1, Text("EXPIRED: Check if {} is still safe", item.item_name, <<>>))
    ELSE IF d # None /\ d[1] <= 1
    THEN Entry("Use Soon", 1, Text("USE TODAY: {} expires in {} day(s)", item.item_name, d))
    ELSE IF d # None /\ d[1] <= 3
    THEN Entry("Use Soon", 1, Text("URGENT: Use {} within {} days", item.item_name, d))
    ELSE Entry("Use Soon", 1, Text("HIGH RISK: {} is at high risk of waste", item.item_name, <<>>))

DonateEntry(item) == Entry("Donate", 1, Text("Consider donating excess {}", item.item_name, <<>>))

\* variant: half of the initial quantity is already enough to suggest a donation
_get_urgent_recommendations_from_half(item) ==
    Return(<<UrgentUseSoon(item, days_until_expiry(item))>>
           \o (IF ~FLess(FHundredths(item.quantity), FMul(FHundredths(item.initial_quantity), F_0_5))
               THEN <<DonateEntry(item)>> ELSE <<>>))

_get_urgent_recommendations(item) ==
    Return(<<UrgentUseSoon(item, days_until_expiry(item))>>
           \o (IF FLess(FMul(FHundredths(item.initial_quantity), F_0_5), FHundredths(item.quantity))
               THEN <<DonateEntry(item)>> ELSE <<>>))

\* _get_medium_risk_recommendations given the item's consumption_rate
MediumByRate(item, rate) ==
    LET d == days_until_expiry(item)
        plan ==
            IF d # None
            THEN << Entry("Use Soon", 2, Text("Plan to use {} within {} days", item.item_name, d)) >>
            ELSE <<>>
        usage ==
            IF rate.val.man = BZero
            THEN << Entry("Use Soon", 2, Text("Start using {} - no consumption recorded yet", item.item_name, <<>>)) >>
            ELSE IF FLess(rate.val, F_0_10)
            THEN << Entry("Use Soon", 2, Text("Slow consumption rate for {}", item.item_name, <<>>)) >>
            ELSE <<>>
    IN  IF rate.exc # "" THEN rate ELSE Return(plan \o usage)

_get_medium_risk_recommendations(item) == MediumByRate(item, consumption_rate(item))

\* variant: the low tier is as pressing as the medium tier
_get_low_risk_recommendations_pressing(item) ==
    Return(<< Entry("Use Soon", 2, Text("{} is being consumed well", item.item_name, <<>>)) >>)

_get_low_risk_recommendations(item) ==
    Return(<< Entry("Use Soon", 3, Text("{} is being consumed well", item.item_name, <<>>)) >>)

\* variant: the medium tier stops short of the seventh day
Tier_short_week(risk_score, d) ==
    IF ~FLess(risk_score, FInt(70)) \/ (d # None /\ d[1] <= 3) THEN "urgent"
    ELSE IF ~FLess(risk_score, FInt(40)) \/ (d # None /\ d[1] < 7) THEN "medium"
    ELSE "low"

\* the if / elif / else of generate_recommendations
Tier(risk_score, d) ==
    IF ~FLess(risk_score, FInt(70)) \/ (d # None /\ d[1] <= 3) THEN "urgent"
    ELSE IF ~FLess(risk_score, FInt(40)) \/ (d # None /\ d[1] <= 7) THEN "medium"
    ELSE "low"

\* recommendations.extend(...) of the tier's entries
Tiered(tier, item) ==
    IF tier = "urgent" THEN _get_urgent_recommendations(item)
    ELSE IF tier = "medium" THEN _get_medium_risk_recommendations(item)
    ELSE _get_low_risk_recommendations(item)

Preservation(category_name) ==
    IF category_name \in DOMAIN PRESERVATION_METHODS
    THEN << Entry("Preserve", 2,
                  Text("Preservation options: {}", "",
                       FirstTwo(PRESERVATION_METHODS[category_name]))) >>
    ELSE <<>>

Recipe(category_name) ==
    IF category_name \in DOMAIN RECIPE_SUGGESTIONS
    THEN << Entry("Recipe Suggestion", 3,
                  Text("Try making: {}", "", FirstTwo(RECIPE_SUGGESTIONS[category_name]))) >>
    ELSE <<>>

\* variant: the recipes are appended before the preservation methods
Appended_recipe_first(tiered, preservation, recipe) ==
    IF tiered.exc # "" THEN tiered
    ELSE Return(tiered.val \o recipe \o preservation)

\* the two append calls and the return
Appended(tiered, preservation, recipe) ==
    IF tiered.exc # "" THEN tiered
    ELSE Return(tiered.val \o preservation \o recipe)

\* generate_recommendations once risk_score is read
RecommendationsFor(item, risk_score) ==
    Appended(Tiered(Tier(risk_score, days_until_expiry(item)), item),
             Preservation(item.category.category_name),
             Recipe(item.category.category_name))

generate_recommendations(item) ==
    RecommendationsFor(item, FHundredths(item.waste_risk_score))

\* get_alert_message once its two locals are read
\* variant: the score is looked at before the expiry
MessageFor_score_first(item, risk_score, d) ==
    IF ~FLess(risk_score, FInt(70))
    THEN Return(Text("{} is at high risk of waste", item.item_name, <<>>))
    ELSE IF d # None /\ d[1] < 0
    THEN Return(Text("{} has expired!", item.item_name, <<>>))
    ELSE IF d # None /\ d[1] <= 1
    THEN Return(Text("{} expires today!", item.item_name, <<>>))
    ELSE IF d # None /\ d[1] <= 3
    THEN Return(Text("{} expires in {} days", item.item_name, d))
    ELSE IF ~FLess(risk_score, FInt(40))
    THEN Return(Text("{} needs attention", item.item_name, <<>>))
    ELSE Return(Text("{} status update", item.item_name, <<>>))

MessageFor(item, risk_score, d) ==
    IF d # None /\ d[1] < 0
    THEN Return(Text("{} has expired!", item.item_name, <<>>))
    ELSE IF d # None /\ d[1] <= 1
    THEN Return(Text("{} expires today!", item.item_name, <<>>))
    ELSE IF d # None /\ d[1] <= 3
    THEN Return(Text("{} expires in {} days", item.item_name, d))
    ELSE IF ~FLess(risk_score, FInt(70))
    THEN Return(Text("{} is at high risk of waste", item.item_name, <<>>))
    ELSE IF ~FLess(risk_score, FInt(40))
    THEN Return(Text("{} needs attention", item.item_name, <<>>))
    ELSE Return(Text("{} status update", item.item_name, <<>>))

\* variant: the score is looked at before the expiry
get_alert_message_score_first(item) ==
    IF item.waste_risk_score >= 7000
    THEN Return(Text("{} is at high risk of waste", item.item_name, <<>>))
    ELSE MessageFor(item, FHundredths(item.waste_risk_score), days_until_expiry(item))

get_alert_message(item) ==
    MessageFor(item, FHundredths(item.waste_risk_score), days_until_expiry(item))

(***************************************************************************)
(* The items the functions are applied to.                                 *)
(***************************************************************************)
MaxExpired == 1
MaxNear == 3
MaxAge == 4

Statuses == {"Active", "Consumed", "Wasted", "Donated"}
Categories ==
    { [category_name |-> "Vegetables", perishability_level |-> "High"],
      [category_name |-> "Grains", perishability_level |-> "Low"],
      [category_name |-> "Beverages", perishability_level |-> "Medium"] }
Quantities == {0, 7, 21, 28, 35}
LogHistories == {<<>>, <<28>>, <<35>>, <<7, 28>>}
PurchaseAges == {0, 1, MaxAge}
ShelfEdges == {5, 6, 10, 11, 20, 21}
ExpiryDates == {None} \cup {Some(d) : d \in (-MaxExpired..MaxNear) \cup ShelfEdges}

ScoringItems ==
    [item_name : {"Milk"},
     status : Statuses, quantity : Quantities, initial_quantity : Quantities,
     purchase_date : {0 - a : a \in PurchaseAges}, expiry_date : ExpiryDates,
     category : Categories, consumption_logs : LogHistories,
     waste_risk_score : {0}]

\* no household, no row
EmptyDb == [items |-> <<>>, alerts |-> <<>>]

\* A call is noted with the date and the item it was made on.
Noted(fn) ==
    calls' = Append(calls, [fn |-> fn, date |-> today, item |-> food_item, db |-> db,
                            args |-> args', ret |-> ret'])

Init ==
    /\ today = 0
    /\ food_item \in ScoringItems
    /\ last = "none"
    /\ args = None
    /\ ret = None
    /\ calls = <<>>
    /\ db = EmptyDb

\* variant: the score is stored on the item
ApplyCalculateWasteRisk_storing ==
    /\ last' = "calculate_waste_risk"
    /\ args' = None
    /\ ret' = calculate_waste_risk(food_item)
    /\ food_item' = [food_item EXCEPT !.waste_risk_score = Numeric(ret'.val)]
    /\ Noted("calculate_waste_risk")
    /\ UNCHANGED <<today, db>>

ApplyCalculateWasteRisk ==
    /\ last' = "calculate_waste_risk"
    /\ args' = None
    /\ ret' = calculate_waste_risk(food_item)
    /\ Noted("calculate_waste_risk")
    /\ UNCHANGED <<food_item, today, db>>

CallCalculateWasteRisk == last = "none" /\ ApplyCalculateWasteRisk

Next == CallCalculateWasteRisk

Spec == Init /\ [][Next]_vars

\* the last day the risks are compared at
MaxShelfDay == 22

\* Active items of one household stock, on every day from the last expired
\* one to MaxShelfDay
ExpiryItems ==
    [item_name : {"Milk"},
     status : {"Active"}, quantity : {0, 7, 28, 35}, initial_quantity : {35},
     purchase_date : {0 - a : a \in {1, MaxAge}},
     expiry_date : {Some(d) : d \in (-MaxExpired)..MaxShelfDay},
     category : { c \in Categories : c.perishability_level # "Medium" },
     consumption_logs : {<<>>, <<28>>, <<7, 28>>},
     waste_risk_score : {0}]

InitExpiry ==
    /\ today = 0
    /\ food_item \in ExpiryItems
    /\ last = "none"
    /\ args = None
    /\ ret = None
    /\ calls = <<>>
    /\ db = EmptyDb

SpecExpiry == InitExpiry /\ [][Next]_vars

(***************************************************************************)
(* The risk level and its colour, applied to scores in hundredths.         *)
(***************************************************************************)
MaxLevel == 100

LevelScores == {100 * k + r : k \in 0..MaxLevel, r \in {0, 1, 99}}

\* an item far from its expiry that is eaten quickly
LowRiskItem ==
    [item_name |-> "Milk", status |-> "Active",
     quantity |-> 500, initial_quantity |-> 10000,
     purchase_date |-> -1, expiry_date |-> Some(25),
     category |-> [category_name |-> "Grains", perishability_level |-> "Low"],
     consumption_logs |-> <<500>>, waste_risk_score |-> 1300]

InitLevels ==
    /\ today = 0
    /\ food_item = LowRiskItem
    /\ last = "none"
    /\ args = None
    /\ ret = None
    /\ calls = <<>>
    /\ db = EmptyDb

ApplyGetRiskLevel(scores) ==
    /\ \E h \in scores :
          /\ args' = Some(h)
          /\ ret' = get_risk_level(FHundredths(h))
    /\ last' = "get_risk_level"
    /\ Noted("get_risk_level")
    /\ UNCHANGED <<food_item, today, db>>

ApplyGetRiskColor(scores) ==
    /\ \E h \in scores :
          /\ args' = Some(h)
          /\ ret' = get_risk_color(FHundredths(h))
    /\ last' = "get_risk_color"
    /\ Noted("get_risk_color")
    /\ UNCHANGED <<food_item, today, db>>

CallGetRiskLevel == last = "none" /\ ApplyGetRiskLevel(LevelScores)

CallGetRiskColor == last = "none" /\ ApplyGetRiskColor(LevelScores)

NextLevels ==
    \/ CallGetRiskLevel
    \/ CallGetRiskColor

SpecLevels == InitLevels /\ [][NextLevels]_vars

(***************************************************************************)
(* The alert and recommendation functions, applied to items that carry a   *)
(* stored score.                                                           *)
(***************************************************************************)
MaxAdviceDays == 8

\* Fish has preservation methods and no recipes
AdviceCategories ==
    Categories \cup { [category_name |-> "Fish", perishability_level |-> "High"] }

AdviceScores == {0, 3999, 4000, 4999, 5000, 6999, 7000, 10000}
AdviceThresholds == {50, 70}

AdviceItems ==
    [item_name : {"Milk"}, status : {"Active"},
     quantity : {0, 7, 8}, initial_quantity : {0, 14},
     purchase_date : {0 - a : a \in {0, 1, 3}},
     expiry_date : {None} \cup {Some(d) : d \in -MaxExpired..MaxAdviceDays},
     category : AdviceCategories, consumption_logs : {<<>>, <<7>>, <<30>>},
     waste_risk_score : AdviceScores]

InitAdvice ==
    /\ today = 0
    /\ food_item \in AdviceItems
    /\ last = "none"
    /\ args = None
    /\ ret = None
    /\ calls = <<>>
    /\ db = EmptyDb

\* should_generate_alert(item) and should_generate_alert(item, threshold)
ApplyShouldGenerateAlert ==
    /\ \E a \in {None} \cup {Some(t) : t \in AdviceThresholds} :
          /\ args' = a
          /\ ret' = should_generate_alert(food_item,
                                          IF a = None THEN DefaultThreshold ELSE a[1])
    /\ last' = "should_generate_alert"
    /\ Noted("should_generate_alert")
    /\ UNCHANGED <<food_item, today, db>>

CallShouldGenerateAlert == last = "none" /\ ApplyShouldGenerateAlert

ApplyGetAlertMessage ==
    /\ last' = "get_alert_message"
    /\ args' = None
    /\ ret' = get_alert_message(food_item)
    /\ Noted("get_alert_message")
    /\ UNCHANGED <<food_item, today, db>>

CallGetAlertMessage == last = "none" /\ ApplyGetAlertMessage

ApplyGenerateRecommendations ==
    /\ last' = "generate_recommendations"
    /\ args' = None
    /\ ret' = generate_recommendations(food_item)
    /\ Noted("generate_recommendations")
    /\ UNCHANGED <<food_item, today, db>>

CallGenerateRecommendations == last = "none" /\ ApplyGenerateRecommendations

NextAdvice ==
    \/ CallShouldGenerateAlert
    \/ CallGetAlertMessage
    \/ CallGenerateRecommendations

SpecAdvice == InitAdvice /\ [][NextAdvice]_vars

(***************************************************************************)
(* A session: the functions called one after another on the same item,     *)
(* while the date may move on.                                             *)
(***************************************************************************)
MaxCalls == 2
MaxToday == 1

SessionScores == {1300, 7000}

SessionItems ==
    [item_name : {"Milk"}, status : {"Active", "Consumed"},
     quantity : {500}, initial_quantity : {10000},
     purchase_date : {-1}, expiry_date : {Some(2), Some(25)},
     category : { [category_name |-> "Grains", perishability_level |-> "Low"] },
     consumption_logs : {<<>>, <<500>>},
     waste_risk_score : {0, 1300}]

InitSession ==
    /\ today = 0
    /\ food_item \in SessionItems
    /\ last = "none"
    /\ args = None
    /\ ret = None
    /\ calls = <<>>
    /\ db = EmptyDb

SessionCalculateWasteRisk == Len(calls) < MaxCalls /\ ApplyCalculateWasteRisk

SessionShouldGenerateAlert == Len(calls) < MaxCalls /\ ApplyShouldGenerateAlert

SessionGetAlertMessage == Len(calls) < MaxCalls /\ ApplyGetAlertMessage

SessionGenerateRecommendations == Len(calls) < MaxCalls /\ ApplyGenerateRecommendations

SessionGetRiskLevel == Len(calls) < MaxCalls /\ ApplyGetRiskLevel(SessionScores)

SessionGetRiskColor == Len(calls) < MaxCalls /\ ApplyGetRiskColor(SessionScores)

\* midnight: datetime.now().date() is a day later
Tick ==
    /\ today < MaxToday
    /\ today' = today + 1
    /\ UNCHANGED <<food_item, last, args, ret, calls, db>>

NextSession ==
    \/ SessionCalculateWasteRisk
    \/ SessionShouldGenerateAlert
    \/ SessionGetAlertMessage
    \/ SessionGenerateRecommendations
    \/ SessionGetRiskLevel
    \/ SessionGetRiskColor
    \/ Tick

SpecSession == InitSession /\ [][NextSession]_vars

(***************************************************************************)
(* routes/prediction.py: calculate_risk scores the Active items of a       *)
(* household and creates their alerts.  A row's id is its place in the     *)
(* table.                                                                  *)
(***************************************************************************)
\* the households of current_user, and the households a request may name
OwnedHouseholds == {1}
RequestedHouseholds == {1, 2}

\* FoodItem.query.filter_by(household_id=household.id, status='Active')
ActiveItems(rows, household_id) ==
    {i \in DOMAIN rows.items :
        rows.items[i].household_id = household_id /\ rows.items[i].status = "Active"}

\* .all() without ORDER BY: the rows come in some order
Orders(ids) ==
    {o \in [1..Cardinality(ids) -> ids] : \A i, j \in DOMAIN o : o[i] = o[j] => i = j}

\* variant: any unread alert counts as the item's
existing_alert_of_any_item(rows, food_item_id) ==
    \E k \in DOMAIN rows.alerts : ~rows.alerts[k].is_read

\* variant: the alerts already read are the ones looked for
existing_alert_among_read(rows, food_item_id) ==
    \E k \in DOMAIN rows.alerts :
        rows.alerts[k].food_item_id = food_item_id /\ rows.alerts[k].is_read

\* Alert.query.filter_by(food_item_id=item.id, is_read=False).first()
existing_alert(rows, food_item_id) ==
    \E k \in DOMAIN rows.alerts :
        rows.alerts[k].food_item_id = food_item_id /\ ~rows.alerts[k].is_read

\* variant: the score is looked at before the expiry
AlertType_score_first(risk_score, d) ==
    IF d = None THEN Raise("TypeError")
    ELSE IF ~FLess(risk_score, FInt(70)) THEN Return("High Risk")
    ELSE IF d[1] < 0 THEN Return("Expired")
    ELSE IF d[1] <= 3 THEN Return("Expiring Soon")
    ELSE Return("Medium Risk")

\* the conditional expression of alert_type; None < 0 is a TypeError
AlertType(risk_score, d) ==
    IF d = None THEN Raise("TypeError")
    ELSE IF d[1] < 0 THEN Return("Expired")
    ELSE IF d[1] <= 3 THEN Return("Expiring Soon")
    ELSE IF ~FLess(risk_score, FInt(70)) THEN Return("High Risk")
    ELSE Return("Medium Risk")

\* the texts of generate_recommendations(item)[:2], which '; '.join puts
\* one after the other
Joined(recommendations) ==
    [k \in DOMAIN FirstTwo(recommendations) |-> recommendations[k].text]

\* Alert(...) and db.session.add(alert), the first exception leaving the loop
Added(run, household_id, i, alert_type, alert_message, recommendations) ==
    IF alert_type.exc # "" THEN [run EXCEPT !.exc = alert_type.exc]
    ELSE IF alert_message.exc # "" THEN [run EXCEPT !.exc = alert_message.exc]
    ELSE IF recommendations.exc # "" THEN [run EXCEPT !.exc = recommendations.exc]
    ELSE [run EXCEPT
            !.db.alerts = Append(@, [food_item_id |-> i,
                                     household_id |-> household_id,
                                     alert_type |-> alert_type.val,
                                     alert_message |-> alert_message.val,
                                     recommendation |-> Joined(recommendations.val),
                                     is_read |-> FALSE]),
            !.alerts_created = @ + 1]

\* the body of the loop once item.waste_risk_score holds risk_score
Alerted(run, household_id, i, item, risk_score, d) ==
    IF AlertFor(risk_score, d, DefaultThreshold).val /\ ~existing_alert(run.db, i)
    THEN Added(run, household_id, i, AlertType(risk_score, d),
               MessageFor(item, risk_score, d), RecommendationsFor(item, risk_score))
    ELSE run

\* the body of the loop from the assignment of the score on
Assigned(run, household_id, i, frame) ==
    IF frame.exc # "" THEN [run EXCEPT !.exc = frame.exc]
    ELSE Alerted([run EXCEPT !.db.items[i].waste_risk_score = Numeric(frame.val),
                             !.frames = (i :> frame) @@ @,
                             !.updated_count = @ + 1],
                 household_id, i, run.db.items[i], frame.val,
                 days_until_expiry(run.db.items[i]))

RECURSIVE Loop(_, _, _)
Loop(run, household_id, active_items) ==
    IF active_items = <<>> \/ run.exc # "" THEN run
    ELSE Loop(Assigned(run, household_id, Head(active_items),
                       calculate_waste_risk(run.db.items[Head(active_items)])),
              household_id, Tail(active_items))

\* the try block of calculate_risk
calculate_risk(rows, household_id, active_items) ==
    Loop([exc |-> "", db |-> rows, frames |-> <<>>, updated_count |-> 0,
          alerts_created |-> 0],
         household_id, active_items)

\* first_or_404 found no household of current_user
NotFound(rows) ==
    [exc |-> "404", db |-> rows, frames |-> <<>>, updated_count |-> 0, alerts_created |-> 0]

\* db.session.commit(), or db.session.rollback() after an exception
Session(rows, run) == IF run.exc = "" THEN run.db ELSE rows

Names == <<"Milk", "Rice", "Kale">>

Fresh == [category |-> [category_name |-> "Grains", perishability_level |-> "Low"],
          quantity |-> 10000, consumption_logs |-> <<>>]
Eaten == [category |-> [category_name |-> "Grains", perishability_level |-> "Low"],
          quantity |-> 500, consumption_logs |-> <<500>>]
Slow == [category |-> [category_name |-> "Vegetables", perishability_level |-> "High"],
         quantity |-> 10000, consumption_logs |-> <<100>>]

Row(i, household_id, status, d, use) ==
    [item_name |-> Names[i], household_id |-> household_id, status |-> status,
     quantity |-> use.quantity, initial_quantity |-> 10000,
     purchase_date |-> -1, expiry_date |-> Some(d),
     category |-> use.category, consumption_logs |-> use.consumption_logs,
     waste_risk_score |-> 0]

Rows(i) ==
    { Row(i, 1, "Active", -1, Fresh), Row(i, 1, "Active", 2, Eaten),
      Row(i, 1, "Active", 5, Slow), Row(i, 1, "Active", 5, Fresh),
      Row(i, 1, "Active", 5, Eaten), Row(i, 1, "Active", 25, Eaten),
      Row(i, 1, "Consumed", 2, Eaten) }

SomeRows(i) ==
    { Row(i, 1, "Active", 2, Eaten), Row(i, 1, "Active", 5, Slow),
      Row(i, 1, "Active", 5, Fresh), Row(i, 1, "Active", 25, Eaten),
      Row(i, 1, "Consumed", 2, Eaten) }

FewRows(i) ==
    { Row(i, 1, "Active", -1, Slow), Row(i, 1, "Active", 5, Fresh),
      Row(i, 1, "Consumed", 5, Slow), Row(i, 2, "Active", 2, Fresh) }

OldAlert(items, i, is_read) ==
    [food_item_id |-> i, household_id |-> items[i].household_id,
     alert_type |-> "Medium Risk",
     alert_message |-> Text("{} needs attention", items[i].item_name, <<>>),
     recommendation |-> <<>>, is_read |-> is_read]

\* no alert yet, an unread alert on one of the items, or a read one on the first
AlertsOn(items) ==
    {<<>>, <<OldAlert(items, 1, TRUE)>>}
    \cup { <<OldAlert(items, i, FALSE)>> : i \in DOMAIN items }

InitRisk ==
    /\ today = 0
    /\ food_item = LowRiskItem
    /\ last = "none"
    /\ args = None
    /\ ret = None
    /\ calls = <<>>
    /\ \E a \in Rows(1), b \in SomeRows(2), c \in FewRows(3) :
          \E alerts \in AlertsOn(<<a, b, c>>) :
              db = [items |-> <<a, b, c>>, alerts |-> alerts]

ApplyCalculateRisk ==
    /\ \E household_id \in RequestedHouseholds :
          IF household_id \notin OwnedHouseholds
          THEN /\ args' = <<household_id, <<>> >>
               /\ ret' = NotFound(db)
          ELSE \E active_items \in Orders(ActiveItems(db, household_id)) :
                  /\ args' = <<household_id, active_items>>
                  /\ ret' = calculate_risk(db, household_id, active_items)
    /\ db' = Session(db, ret')
    /\ last' = "calculate_risk"
    /\ Noted("calculate_risk")
    /\ UNCHANGED <<food_item, today>>

CallCalculateRisk == last = "none" /\ ApplyCalculateRisk

NextRisk == CallCalculateRisk

SpecRisk == InitRisk /\ [][NextRisk]_vars

(***************************************************************************)
(* Alerts over time: calculate_risk runs and mark_alert_read requests, one *)
(* after the other.                                                        *)
(***************************************************************************)
MaxRequests == 3

\* the route mark_alert_read: get_or_404, the ownership test, is_read = True
mark_alert_read(rows, alert_id) ==
    IF alert_id \notin DOMAIN rows.alerts THEN [exc |-> "404", db |-> rows]
    ELSE IF rows.alerts[alert_id].household_id \notin OwnedHouseholds
    THEN [exc |-> "Access denied", db |-> rows]
    ELSE [exc |-> "", db |-> [rows EXCEPT !.alerts[alert_id].is_read = TRUE]]

InitAlerts ==
    /\ today = 0
    /\ food_item = LowRiskItem
    /\ last = "none"
    /\ args = None
    /\ ret = None
    /\ calls = <<>>
    /\ \E a \in { Row(1, 1, "Active", -1, Fresh), Row(1, 1, "Active", 5, Fresh),
                  Row(1, 1, "Active", 25, Eaten) },
          b \in { Row(2, 1, "Active", 2, Eaten), Row(2, 2, "Active", 2, Fresh),
                  Row(2, 1, "Consumed", 2, Eaten) } :
          \E alerts \in {<<>>, <<OldAlert(<<a, b>>, 2, FALSE)>>} :
              db = [items |-> <<a, b>>, alerts |-> alerts]

RunCalculateRisk == Len(calls) < MaxRequests /\ ApplyCalculateRisk

MarkAlertRead ==
    /\ Len(calls) < MaxRequests
    /\ \E alert_id \in 1..(Len(db.alerts) + 1) :
          /\ args' = <<alert_id>>
          /\ ret' = mark_alert_read(db, alert_id)
    /\ db' = ret'.db
    /\ last' = "mark_alert_read"
    /\ Noted("mark_alert_read")
    /\ UNCHANGED <<food_item, today>>

NextAlerts ==
    \/ RunCalculateRisk
    \/ MarkAlertRead

SpecAlerts == InitAlerts /\ [][NextAlerts]_vars

(***************************************************************************)
(* The stock: the routes of food.py and consumption.py on the rows of      *)
(* food_items, consumption_logs, waste_records and alerts.  A quantity on  *)
(* a form is counted in thousandths, a quantity in a Numeric(10, 2) column *)
(* in hundredths; current_user owns the households of OwnedHouseholds.     *)
(***************************************************************************)
MaxChanges == 2

\* a float on its way into a Numeric(10, 2) column: the database rounds the
\* third decimal half away from zero
Stored(t) == (t + 5) \div 10

Put(table, id, row) == [k \in DOMAIN table \cup {id} |-> IF k = id THEN row ELSE table[k]]

Dropped(table, ids) == [k \in DOMAIN table \ ids |-> table[k]]

\* the rows of a table that belong to a food item
Of(table, item_id) == {k \in DOMAIN table : table[k].food_item_id = item_id}

\* db.session.commit() of the changed rows
Committed(rows) == [exc |-> "", db |-> rows]

\* the request ends with a flash, abort(404) or a rollback: no row changes
Refused(exc, rows) == [exc |-> exc, db |-> rows]

FoodCategories == {1}

add_food_item(rows, form) ==
    IF form.household_id \notin OwnedHouseholds
    THEN Refused("Please select a valid household.", rows)
    ELSE IF form.category_id \notin FoodCategories
    THEN Refused("Please select a valid category.", rows)
    ELSE IF form.item_name = "" THEN Refused("Item name is required.", rows)
    ELSE IF form.quantity = None \/ form.quantity[1] <= 0
    THEN Refused("Please provide a valid quantity.", rows)
    ELSE IF form.unit = "" THEN Refused("Unit is required.", rows)
    ELSE IF form.purchase_date = None
    THEN Refused("Please provide a valid purchase date.", rows)
    ELSE IF form.expiry_date = None
    THEN Refused("Please provide a valid expiry date.", rows)
    ELSE IF form.expiry_date[1] <= form.purchase_date[1]
    THEN Refused("Expiry date must be after purchase date.", rows)
    ELSE Committed([rows EXCEPT
             !.items = Put(@, rows.seq.items,
                           [household_id |-> form.household_id,
                            category_id |-> form.category_id,
                            item_name |-> form.item_name,
                            quantity |-> Stored(form.quantity[1]),
                            unit |-> form.unit,
                            purchase_date |-> form.purchase_date[1],
                            expiry_date |-> form.expiry_date[1],
                            initial_quantity |-> Stored(form.quantity[1]),
                            status |-> "Active"]),
             !.seq.items = @ + 1])

edit_food_item(rows, item_id, form) ==
    IF item_id \notin DOMAIN rows.items THEN Refused("404", rows)
    ELSE IF rows.items[item_id].household_id \notin OwnedHouseholds
    THEN Refused("Access denied.", rows)
    ELSE IF form.category_id \notin FoodCategories
    THEN Refused("Please select a valid category.", rows)
    ELSE IF form.item_name = "" THEN Refused("Item name is required.", rows)
    ELSE IF form.quantity = None \/ form.quantity[1] < 0
    THEN Refused("Please provide a valid quantity.", rows)
    ELSE IF form.unit = "" THEN Refused("Unit is required.", rows)
    ELSE IF form.expiry_date = None
    THEN Refused("Please provide a valid expiry date.", rows)
    ELSE Committed([rows EXCEPT
             !.items[item_id].category_id = form.category_id,
             !.items[item_id].item_name = form.item_name,
             !.items[item_id].quantity = Stored(form.quantity[1]),
             !.items[item_id].unit = form.unit,
             !.items[item_id].expiry_date = form.expiry_date[1]])

\* the delete cascades to the logs, waste records and alerts of the item
delete_food_item(rows, item_id) ==
    IF item_id \notin DOMAIN rows.items THEN Refused("404", rows)
    ELSE IF rows.items[item_id].household_id \notin OwnedHouseholds
    THEN Refused("Access denied.", rows)
    ELSE Committed([rows EXCEPT
             !.items = Dropped(@, {item_id}),
             !.logs = Dropped(@, Of(rows.logs, item_id)),
             !.waste_records = Dropped(@, Of(rows.waste_records, item_id)),
             !.alerts = Dropped(@, Of(rows.alerts, item_id))])

\* mark_wasted past its ownership test
Wasted(rows, item_id) ==
    Committed([rows EXCEPT
        !.waste_records = Put(@, rows.seq.waste_records,
                              [food_item_id |-> item_id,
                               household_id |-> rows.items[item_id].household_id,
                               waste_date |-> today,
                               quantity_wasted |-> rows.items[item_id].quantity]),
        !.seq.waste_records = @ + 1,
        !.items[item_id].status = "Wasted",
        !.items[item_id].quantity = 0])

\* variant: the owner of the household is not looked at
mark_wasted_of_anyone(rows, item_id) ==
    IF item_id \notin DOMAIN rows.items THEN Refused("404", rows)
    ELSE Wasted(rows, item_id)

mark_wasted(rows, item_id) ==
    IF item_id \notin DOMAIN rows.items THEN Refused("404", rows)
    ELSE IF rows.items[item_id].household_id \notin OwnedHouseholds
    THEN Refused("Access denied.", rows)
    ELSE Wasted(rows, item_id)

\* the try block of log_consumption and of quick_log past the tests: the log
\* row, the subtraction, and Consumed once nothing is left
Consume(rows, item_id, t, consumption_date) ==
    LET left == 10 * rows.items[item_id].quantity - t
    IN  Committed([rows EXCEPT
            !.logs = Put(@, rows.seq.logs,
                         [food_item_id |-> item_id,
                          consumption_date |-> consumption_date,
                          quantity_consumed |-> Stored(t)]),
            !.seq.logs = @ + 1,
            !.items[item_id].status = IF left <= 0 THEN "Consumed" ELSE @,
            !.items[item_id].quantity = IF left <= 0 THEN 0 ELSE Stored(left)])

log_consumption(rows, form) ==
    LET found == form.food_item_id \in DOMAIN rows.items
    IN  IF ~found \/ rows.items[form.food_item_id].household_id \notin OwnedHouseholds
        THEN Refused("Please select a valid food item.", rows)
        ELSE IF form.quantity_consumed = None \/ form.quantity_consumed[1] <= 0
        THEN Refused("Please provide a valid quantity consumed.", rows)
        ELSE IF form.quantity_consumed[1] > 10 * rows.items[form.food_item_id].quantity
        THEN Refused("Consumed quantity cannot exceed available quantity", rows)
        ELSE IF form.consumption_date = None
        THEN Refused("Please provide a valid consumption date.", rows)
        ELSE IF form.consumption_date[1] > today
        THEN Refused("Consumption date cannot be in the future.", rows)
        ELSE IF form.consumption_date[1] < rows.items[form.food_item_id].purchase_date
        THEN Refused("Consumption date cannot be before purchase date.", rows)
        ELSE Consume(rows, form.food_item_id, form.quantity_consumed[1],
                       form.consumption_date[1])

delete_consumption_log(rows, log_id) ==
    IF log_id \notin DOMAIN rows.logs THEN Refused("404", rows)
    ELSE LET item_id == rows.logs[log_id].food_item_id
         IN  IF rows.items[item_id].household_id \notin OwnedHouseholds
             THEN Refused("Access denied.", rows)
             ELSE Committed([rows EXCEPT
                      !.items[item_id].quantity = @ + rows.logs[log_id].quantity_consumed,
                      !.items[item_id].status = IF @ = "Consumed" THEN "Active" ELSE @,
                      !.logs = Dropped(@, {log_id})])

\* variant: more than what is left may be logged
quick_log_beyond(rows, item_id, quantity_consumed) ==
    IF item_id \notin DOMAIN rows.items THEN Refused("404", rows)
    ELSE IF rows.items[item_id].household_id \notin OwnedHouseholds
    THEN Refused("Access denied.", rows)
    ELSE IF quantity_consumed = None THEN Refused("TypeError", rows)
    ELSE IF quantity_consumed[1] <= 0 THEN Refused("ValueError", rows)
    ELSE Consume(rows, item_id, quantity_consumed[1], today)

quick_log(rows, item_id, quantity_consumed) ==
    IF item_id \notin DOMAIN rows.items THEN Refused("404", rows)
    ELSE IF rows.items[item_id].household_id \notin OwnedHouseholds
    THEN Refused("Access denied.", rows)
    ELSE IF quantity_consumed = None THEN Refused("TypeError", rows)
    ELSE IF quantity_consumed[1] <= 0
            \/ quantity_consumed[1] > 10 * rows.items[item_id].quantity
    THEN Refused("ValueError", rows)
    ELSE Consume(rows, item_id, quantity_consumed[1], today)

\* quantities typed into a form, in thousandths, and a text that is no number
Typed(amounts) == {Some(t) : t \in amounts} \cup {None}

\* what is typed into quantity_consumed: nothing or less, half a hundredth,
\* the whole of item 1 or a part of it, more than item 1 has
Amounts == Typed({-1000, 0, 5, 1000, 2000})

FilledForm ==
    [household_id |-> 1, category_id |-> 1, item_name |-> "Rice", quantity |-> Some(1000),
     unit |-> "kg", purchase_date |-> Some(-1), expiry_date |-> Some(5),
     food_item_id |-> 1, quantity_consumed |-> Some(1000), consumption_date |-> Some(0)]

\* forms that differ from the filled one in one field
AddForms ==
    { [FilledForm EXCEPT !.quantity = q] : q \in Typed({-1000, 0, 4, 1000}) }
    \cup { [FilledForm EXCEPT !.household_id = 2], [FilledForm EXCEPT !.category_id = 0],
           [FilledForm EXCEPT !.item_name = ""], [FilledForm EXCEPT !.unit = ""],
           [FilledForm EXCEPT !.purchase_date = None],
           [FilledForm EXCEPT !.expiry_date = None],
           [FilledForm EXCEPT !.expiry_date = Some(-1)] }

EditForms ==
    { [FilledForm EXCEPT !.quantity = q] : q \in Typed({-1000, 0, 2000}) }
    \cup { [FilledForm EXCEPT !.category_id = 0], [FilledForm EXCEPT !.item_name = ""],
           [FilledForm EXCEPT !.unit = ""], [FilledForm EXCEPT !.expiry_date = None] }

LogForms(item_ids) ==
    { [FilledForm EXCEPT !.food_item_id = i, !.quantity_consumed = q] :
          i \in item_ids, q \in Amounts }
    \cup { [FilledForm EXCEPT !.consumption_date = d] : d \in {None, Some(1), Some(-2)} }

\* the ids a request may name: those given out so far and the next one
Ids(counter) == 1..counter

Milk(quantity, initial_quantity, household_id, status) ==
    [household_id |-> household_id, category_id |-> 1, item_name |-> "Milk",
     quantity |-> quantity, unit |-> "l", purchase_date |-> -1, expiry_date |-> 5,
     initial_quantity |-> initial_quantity, status |-> status]

LogOf(item_id, quantity_consumed) ==
    [food_item_id |-> item_id, consumption_date |-> 0, quantity_consumed |-> quantity_consumed]

\* the stock of current_user (item 1) and of someone else (item 2, half used),
\* with an unread alert on each
Stock(own, own_logs) ==
    [items |-> <<own, Milk(50, 100, 2, "Active")>>,
     logs |-> <<LogOf(2, 50)>> \o own_logs,
     waste_records |-> <<>>,
     alerts |-> <<OldAlert(<<own, Milk(50, 100, 2, "Active")>>, 1, FALSE),
                  OldAlert(<<own, Milk(50, 100, 2, "Active")>>, 2, FALSE)>>,
     seq |-> [items |-> 3, logs |-> 2 + Len(own_logs), waste_records |-> 1]]

\* item 1 is untouched, or a third of it has been logged
InitStock ==
    /\ today = 0
    /\ food_item = LowRiskItem
    /\ last = "none"
    /\ args = None
    /\ ret = None
    /\ calls = <<>>
    /\ db \in { Stock(Milk(100, 100, 1, "Active"), <<>>),
                Stock(Milk(200, 300, 1, "Active"), <<LogOf(1, 100)>>) }

\* A request that changed rows is noted with the id it was about, its
\* arguments and the rows it found.
Served(fn, id) ==
    /\ db' = ret'.db
    /\ last' = fn
    /\ calls' = IF ret'.exc = ""
                THEN Append(calls, [fn |-> fn, id |-> id, args |-> args', before |-> db])
                ELSE calls
    /\ UNCHANGED <<food_item, today>>

AddFoodItem ==
    /\ Len(calls) < MaxChanges
    /\ \E form \in AddForms :
          /\ args' = <<form>>
          /\ ret' = add_food_item(db, form)
          /\ Served("add_food_item", db.seq.items)

EditFoodItem ==
    /\ Len(calls) < MaxChanges
    /\ \E item_id \in Ids(db.seq.items), form \in EditForms :
          /\ args' = <<item_id, form>>
          /\ ret' = edit_food_item(db, item_id, form)
          /\ Served("edit_food_item", item_id)

DeleteFoodItem ==
    /\ Len(calls) < MaxChanges
    /\ \E item_id \in Ids(db.seq.items) :
          /\ args' = <<item_id>>
          /\ ret' = delete_food_item(db, item_id)
          /\ Served("delete_food_item", item_id)

MarkWasted ==
    /\ Len(calls) < MaxChanges
    /\ \E item_id \in Ids(db.seq.items) :
          /\ args' = <<item_id>>
          /\ ret' = mark_wasted(db, item_id)
          /\ Served("mark_wasted", item_id)

LogConsumption ==
    /\ Len(calls) < MaxChanges
    /\ \E form \in LogForms(Ids(db.seq.items)) :
          /\ args' = <<form>>
          /\ ret' = log_consumption(db, form)
          /\ Served("log_consumption", form.food_item_id)

DeleteConsumptionLog ==
    /\ Len(calls) < MaxChanges
    /\ \E log_id \in Ids(db.seq.logs) :
          /\ args' = <<log_id>>
          /\ ret' = delete_consumption_log(db, log_id)
          /\ Served("delete_consumption_log",
                    IF log_id \in DOMAIN db.logs THEN db.logs[log_id].food_item_id ELSE 0)

QuickLog ==
    /\ Len(calls) < MaxChanges
    /\ \E item_id \in Ids(db.seq.items), quantity_consumed \in Amounts :
          /\ args' = <<item_id, quantity_consumed>>
          /\ ret' = quick_log(db, item_id, quantity_consumed)
          /\ Served("quick_log", item_id)

ReadAlert ==
    /\ Len(calls) < MaxChanges
    /\ \E alert_id \in 1..3 :
          /\ args' = <<alert_id>>
          /\ ret' = mark_alert_read(db, alert_id)
          /\ Served("mark_alert_read", alert_id)

NextStock ==
    \/ AddFoodItem
    \/ EditFoodItem
    \/ DeleteFoodItem
    \/ MarkWasted
    \/ LogConsumption
    \/ DeleteConsumptionLog
    \/ QuickLog
    \/ ReadAlert

SpecStock == InitStock /\ [][NextStock]_vars

(***************************************************************************)
(* Properties of the scorer, over the states in which calculate_waste_risk *)
(* has been applied to food_item.  Percentages and days-to-consume on the  *)
(* side of the specification are exact rationals, compared by cross        *)
(* multiplication of the hundredths.                                       *)
(***************************************************************************)
Scored == last = "calculate_waste_risk"
ScoredActive == Scored /\ food_item.status = "Active"

\* C1: for every food item calculate_waste_risk returns a value in [0, 100]
\* and raises nothing.
C1_ScoreInRange ==
    Scored => /\ ret.exc = ""
              /\ ~FLess(ret.val, FZero)
              /\ ~FLess(FInt(100), ret.val)

\* an Active item with zero initial quantity, unknown expiry and no consumption
C1_Witness ==
    /\ ScoredActive
    /\ food_item.initial_quantity = 0
    /\ food_item.quantity > 0
    /\ food_item.expiry_date = None
    /\ food_item.consumption_logs = <<>>
    /\ ret.exc = ""

\* C2: for every item whose status is not Active calculate_waste_risk returns
\* exactly 0.
C2_InactiveIsZero ==
    Scored /\ food_item.status # "Active" => ret.exc = "" /\ ret.val = FZero

\* a Wasted item, expired, with stock left
C2_Witness ==
    /\ Scored
    /\ food_item.status = "Wasted"
    /\ food_item.expiry_date = Some(-1)
    /\ food_item.quantity = 35
    /\ ret.val = FZero

PerishabilityTable(level) ==
    CASE level = "High" -> 80
      [] level = "Medium" -> 50
      [] level = "Low" -> 20

\* C3: for every Active item 10 * score = 4 * shelfLife + 3 * consumption
\* + 2 * quantity + perishability (a multiple of ten in 0..1000, so the clamp
\* changes nothing), the perishability sub-risk being 80 / 50 / 20 for
\* High / Medium / Low.
C3_WeightedSum ==
    ScoredActive =>
        LET tenfold == 4 * ret.shelf_life_risk + 3 * ret.consumption_risk
                       + 2 * ret.quantity_risk + ret.perishability_risk
        IN  /\ ret.exc = ""
            /\ ret.perishability_risk = PerishabilityTable(food_item.category.perishability_level)
            /\ tenfold % 10 = 0
            /\ tenfold \in 0..1000
            /\ ret.val = FInt(tenfold \div 10)

\* the highest score: expired, nearly full, highly perishable
C3_Witness ==
    /\ ScoredActive
    /\ food_item.category.perishability_level = "High"
    /\ ret.shelf_life_risk = 100 /\ ret.consumption_risk = 100
    /\ ret.quantity_risk = 70 /\ ret.perishability_risk = 80
    /\ ret.val = FInt(92)

RECURSIVE SumSeq(_)
SumSeq(q) == IF q = <<>> THEN 0 ELSE Head(q) + SumSeq(Tail(q))

\* The decision table of the consumption sub-risk in exact arithmetic:
\* rate = consumed / daysSincePurchase, daysToConsume = quantity / rate, so
\* daysToConsume > k * d  iff  quantity * daysSincePurchase > k * d * consumed.
ConsumptionTable(item) ==
    LET d == days_until_expiry(item)
        days_since_purchase == today - item.purchase_date
        consumed == IF days_since_purchase <= 0 THEN 0 ELSE SumSeq(item.consumption_logs)
        stock == item.quantity * days_since_purchase
    IN  IF d = None \/ d[1] <= 0 THEN 100
        ELSE IF consumed = 0 THEN (IF days_since_purchase > 3 THEN 80 ELSE 50)
        ELSE IF 2 * stock > 3 * d[1] * consumed THEN 90
        ELSE IF stock > d[1] * consumed THEN 70
        ELSE IF 5 * stock > 4 * d[1] * consumed THEN 50
        ELSE 20

\* daysToConsume is exactly 1.5, 1 or 0.8 times daysUntilExpiry
OnConsumptionEdge(item) ==
    LET d == days_until_expiry(item)
        days_since_purchase == today - item.purchase_date
        consumed == SumSeq(item.consumption_logs)
        stock == item.quantity * days_since_purchase
    IN  /\ d # None /\ d[1] > 0 /\ days_since_purchase > 0 /\ consumed > 0
        /\ \/ 2 * stock = 3 * d[1] * consumed
           \/ stock = d[1] * consumed
           \/ 5 * stock = 4 * d[1] * consumed

\* C4: the consumption sub-risk follows the ordered decision table: 100 when
\* daysUntilExpiry is unknown or <= 0; else, at rate 0, 80 when
\* daysSincePurchase > 3 and 50 otherwise; else 90 / 70 / 50 / 20 as
\* daysToConsume is > 1.5 d, > d, > 0.8 d, or not.
C4_ConsumptionTable ==
    ScoredActive => ret.exc = "" /\ ret.consumption_risk = ConsumptionTable(food_item)

\* C4, away from the edges: the table holds wherever daysToConsume is not
\* exactly on a cutoff.
C4_TableOffEdge ==
    ScoredActive /\ ~OnConsumptionEdge(food_item) =>
        ret.exc = "" /\ ret.consumption_risk = ConsumptionTable(food_item)

\* 0.35 consumed in 1 day, 0.28 left, expiry tomorrow: daysToConsume is
\* exactly 0.8 * daysUntilExpiry, and the call answers 50
C4_Witness ==
    /\ ScoredActive
    /\ food_item.quantity = 28
    /\ food_item.consumption_logs = <<35>>
    /\ food_item.purchase_date = today - 1
    /\ food_item.expiry_date = Some(today + 1)
    /\ ConsumptionTable(food_item) = 20
    /\ ret.consumption_risk = 50

ShelfLifeBuckets ==
    << [lo |-> -1000000, hi |-> -1, risk |-> 100],
       [lo |-> 0, hi |-> 2, risk |-> 90],
       [lo |-> 3, hi |-> 5, risk |-> 70],
       [lo |-> 6, hi |-> 10, risk |-> 50],
       [lo |-> 11, hi |-> 20, risk |-> 30],
       [lo |-> 21, hi |-> 1000000, risk |-> 10] >>

\* C5: the shelf-life sub-risk is 100 when daysUntilExpiry < 0, 90 for 0..2,
\* 70 for 3..5, 50 for 6..10, 30 for 11..20, 10 when > 20, and 50 when it is
\* unknown; the days fall in exactly one bucket.
C5_ShelfLifeTable ==
    ScoredActive =>
        LET d == days_until_expiry(food_item)
            hit == {i \in DOMAIN ShelfLifeBuckets :
                        d # None /\ ShelfLifeBuckets[i].lo <= d[1] /\ d[1] <= ShelfLifeBuckets[i].hi}
        IN  /\ ret.exc = ""
            /\ d = None => ret.shelf_life_risk = 50
            /\ d # None => /\ Cardinality(hit) = 1
                           /\ \A i \in hit : ret.shelf_life_risk = ShelfLifeBuckets[i].risk

\* the upper edge of the 0..2 bucket
C5_Witness ==
    /\ ScoredActive
    /\ days_until_expiry(food_item) = Some(2)
    /\ ret.shelf_life_risk = 90

\* The quantity step function in exact arithmetic: percentageRemaining > k
\* iff 100 * quantity > k * initial_quantity.
QuantityTable(item) ==
    LET q == 100 * item.quantity
        iq == item.initial_quantity
    IN  IF q > 80 * iq THEN 70
        ELSE IF q > 60 * iq THEN 50
        ELSE IF q > 40 * iq THEN 30
        ELSE IF q > 20 * iq THEN 15
        ELSE 5

\* C6: for initialQuantity > 0 the quantity sub-risk is 70 / 50 / 30 / 15 / 5
\* as percentageRemaining is > 80, > 60, > 40, > 20, or not (exactly 80
\* percent gives 50), and an item with more left than its initial quantity
\* gets 70 without an error.
C6_QuantityTable ==
    ScoredActive /\ food_item.initial_quantity > 0 =>
        /\ ret.exc = ""
        /\ ret.quantity_risk = QuantityTable(food_item)
        /\ food_item.quantity > food_item.initial_quantity => ret.quantity_risk = 70

\* C6, away from the edges: the step function holds wherever
\* percentageRemaining is not exactly 80, 60, 40 or 20.
C6_TableOffEdge ==
    /\ ScoredActive
    /\ food_item.initial_quantity > 0
    /\ \A k \in {20, 40, 60, 80} : 100 * food_item.quantity # k * food_item.initial_quantity
    => /\ ret.exc = ""
       /\ ret.quantity_risk = QuantityTable(food_item)

\* 0.28 left of 0.35 is exactly 80 percent, and the call answers 70
C6_Witness ==
    /\ ScoredActive
    /\ food_item.quantity = 28
    /\ food_item.initial_quantity = 35
    /\ ret.quantity_risk = 70

\* C7 as stated: when initialQuantity is 0 nothing is raised and the quantity
\* sub-risk is the step function's value for 0 percent remaining.
C7_ZeroInitialAsZeroPercent ==
    ScoredActive /\ food_item.initial_quantity = 0 =>
        /\ ret.exc = ""
        /\ ret.quantity_risk = QuantityTable([quantity |-> 0, initial_quantity |-> 1])

\* C7, amended: when initialQuantity is 0 nothing is raised and the quantity
\* sub-risk is 0, whatever quantity remains.
C7_ZeroInitialIsZero ==
    ScoredActive /\ food_item.initial_quantity = 0 =>
        ret.exc = "" /\ ret.quantity_risk = 0

\* stock left of an item whose initial quantity is 0
C7_Witness ==
    /\ ScoredActive
    /\ food_item.initial_quantity = 0
    /\ food_item.quantity = 21
    /\ ret.exc = ""
    /\ ret.quantity_risk = 0

(***************************************************************************)
(* Properties of the alert and recommendation functions, under SpecAdvice. *)
(* The stored score is compared exactly, in hundredths.                    *)
(***************************************************************************)
KnownAndAtMost(d, n) == d # None /\ d[1] <= n

AlertRule(item) ==
    LET d == days_until_expiry(item)
    IN  IF KnownAndAtMost(d, -1) THEN "{} has expired!"
        ELSE IF KnownAndAtMost(d, 1) THEN "{} expires today!"
        ELSE IF KnownAndAtMost(d, 3) THEN "{} expires in {} days"
        ELSE IF item.waste_risk_score >= 7000 THEN "{} is at high risk of waste"
        ELSE IF item.waste_risk_score >= 4000 THEN "{} needs attention"
        ELSE "{} status update"

\* C9: get_alert_message returns the one message of the first rule that
\* matches, in the order expired (days < 0), expires today (<= 1), expires
\* in N days (<= 3), high risk (score >= 70), needs attention (score >= 40),
\* status update; an unknown expiry falls through to the score rules.
C9_AlertMessage ==
    last = "get_alert_message" =>
        /\ ret.exc = ""
        /\ ret.val.template = AlertRule(food_item)
        /\ ret.val.name = food_item.item_name
        /\ ret.val.params = IF ret.val.template = "{} expires in {} days"
                            THEN days_until_expiry(food_item) ELSE <<>>

\* three days left at score 100: the expiry message, not the high-risk one
C9_Witness ==
    /\ last = "get_alert_message"
    /\ days_until_expiry(food_item) = Some(3)
    /\ food_item.waste_risk_score = 10000
    /\ ret.val.template = "{} expires in {} days"

TierRule(item) ==
    LET d == days_until_expiry(item)
    IN  IF item.waste_risk_score >= 7000 \/ KnownAndAtMost(d, 3) THEN "urgent"
        ELSE IF item.waste_risk_score >= 4000 \/ KnownAndAtMost(d, 7) THEN "medium"
        ELSE "low"

\* the entries of a returned list that a tier emits (the others are the
\* Preserve and Recipe Suggestion entries)
TierEntries(recommendations) ==
    SelectSeq(recommendations, LAMBDA e : e.type \in {"Use Soon", "Donate"})

\* Urgent entries have priority 1 and there is at least one; medium entries
\* have priority 2 and there may be none; the low tier is one priority 3 entry.
EntriesOfTier(entries) ==
    IF entries # <<>> /\ \A i \in DOMAIN entries : entries[i].priority = 1 THEN {"urgent"}
    ELSE IF \A i \in DOMAIN entries : entries[i].priority = 2 THEN {"medium"}
    ELSE IF Len(entries) = 1 /\ entries[1].priority = 3 THEN {"low"}
    ELSE {}

\* C10: generate_recommendations emits the entries of exactly one tier:
\* urgent iff score >= 70 or daysUntilExpiry is known and <= 3; otherwise
\* medium iff score >= 40 or daysUntilExpiry is known and <= 7; otherwise low.
C10_OneTier ==
    last = "generate_recommendations" =>
        /\ ret.exc = ""
        /\ EntriesOfTier(TierEntries(ret.val)) = {TierRule(food_item)}

\* a week left at a score below 40: the medium tier, by the expiry alone
C10_Witness ==
    /\ last = "generate_recommendations"
    /\ days_until_expiry(food_item) = Some(7)
    /\ food_item.waste_risk_score = 3999
    /\ TierEntries(ret.val) # <<>>
    /\ EntriesOfTier(TierEntries(ret.val)) = {"medium"}

UrgentWording(d) ==
    IF KnownAndAtMost(d, -1) THEN "EXPIRED: Check if {} is still safe"
    ELSE IF KnownAndAtMost(d, 1) THEN "USE TODAY: {} expires in {} day(s)"
    ELSE IF KnownAndAtMost(d, 3) THEN "URGENT: Use {} within {} days"
    ELSE "HIGH RISK: {} is at high risk of waste"

\* C11: in the urgent tier exactly one Use Soon entry with priority 1 is
\* emitted, worded by the first of expired (days < 0), expires today (<= 1),
\* within 3 days (<= 3), high risk (days unknown or > 3); a Donate entry with
\* priority 1 follows it iff quantity > 0.5 * initial_quantity, and nothing
\* else is emitted by the tier.
C11_UrgentTier ==
    last = "generate_recommendations" /\ TierRule(food_item) = "urgent" =>
        LET e == TierEntries(ret.val)
            d == days_until_expiry(food_item)
            donate == 2 * food_item.quantity > food_item.initial_quantity
        IN  /\ ret.exc = ""
            /\ Len(e) = IF donate THEN 2 ELSE 1
            /\ e[1].type = "Use Soon" /\ e[1].priority = 1
            /\ e[1].text.template = UrgentWording(d)
            /\ e[1].text.name = food_item.item_name
            /\ donate => e[2].type = "Donate" /\ e[2].priority = 1
            /\ d = Some(-1) => e[1].text.template = "EXPIRED: Check if {} is still safe"

\* expired yesterday with exactly half of the initial quantity left: the
\* expired wording and no Donate entry
C11_Witness ==
    /\ last = "generate_recommendations"
    /\ days_until_expiry(food_item) = Some(-1)
    /\ food_item.quantity = 7 /\ food_item.initial_quantity = 14
    /\ Len(TierEntries(ret.val)) = 1
    /\ TierEntries(ret.val)[1].text.template = "EXPIRED: Check if {} is still safe"

\* The consumption history in exact arithmetic: hundredths consumed, and the
\* days they were consumed in (0 consumed when there is no log or no day).
Consumed(item) ==
    IF today - item.purchase_date <= 0 THEN 0 ELSE SumSeq(item.consumption_logs)

\* the entry the medium tier adds for the rate = Consumed / 100 / days
UsageWording(item) ==
    IF Consumed(item) = 0 THEN <<"Start using {} - no consumption recorded yet">>
    ELSE IF Consumed(item) < 10 * (today - item.purchase_date)
    THEN <<"Slow consumption rate for {}">>
    ELSE <<>>

MediumTable(item) ==
    LET d == days_until_expiry(item)
    IN  (IF d # None THEN <<"Plan to use {} within {} days">> ELSE <<>>) \o UsageWording(item)

\* C12: in the medium tier a priority-2 Use Soon entry naming the days
\* remaining is emitted when daysUntilExpiry is known, followed by at most one
\* further priority-2 entry: start-using when the consumption rate is 0,
\* otherwise slow-consumption when the rate is < 0.1, otherwise none.
C12_MediumTier ==
    last = "generate_recommendations" /\ TierRule(food_item) = "medium" =>
        LET e == TierEntries(ret.val)
        IN  /\ ret.exc = ""
            /\ [i \in DOMAIN e |-> e[i].text.template] = MediumTable(food_item)
            /\ \A i \in DOMAIN e : e[i].type = "Use Soon" /\ e[i].priority = 2
            /\ days_until_expiry(food_item) # None =>
                   e[1].text.params = days_until_expiry(food_item)

\* C12, away from the edge: the same wherever the rate is not exactly 0.1.
C12_TierOffEdge ==
    /\ last = "generate_recommendations"
    /\ TierRule(food_item) = "medium"
    /\ Consumed(food_item) # 10 * (today - food_item.purchase_date)
    => LET e == TierEntries(ret.val)
       IN  /\ ret.exc = ""
           /\ [i \in DOMAIN e |-> e[i].text.template] = MediumTable(food_item)
           /\ \A i \in DOMAIN e : e[i].type = "Use Soon" /\ e[i].priority = 2

\* 0.30 consumed in 3 days is a rate of exactly 0.1, and the slow-consumption
\* entry is emitted
C12_Witness ==
    /\ last = "generate_recommendations"
    /\ TierRule(food_item) = "medium"
    /\ food_item.consumption_logs = <<30>>
    /\ food_item.purchase_date = today - 3
    /\ food_item.expiry_date = None
    /\ [i \in DOMAIN TierEntries(ret.val) |-> TierEntries(ret.val)[i].text.template]
           = <<"Slow consumption rate for {}">>

\* The keys of the two tables.
PreservationKeys ==
    {"Vegetables", "Fruits", "Dairy", "Meat", "Fish", "Bread & Bakery", "Grains"}
RecipeKeys == {"Vegetables", "Fruits", "Dairy", "Meat", "Bread & Bakery"}

\* what follows the tier entries for a category
CategoryTable(category_name) ==
    (IF category_name \in PreservationKeys
     THEN << [type |-> "Preserve", priority |-> 2,
              text |-> [template |-> "Preservation options: {}", name |-> "",
                        params |-> << PRESERVATION_METHODS[category_name][1],
                                      PRESERVATION_METHODS[category_name][2] >>]] >>
     ELSE <<>>)
    \o
    (IF category_name \in RecipeKeys
     THEN << [type |-> "Recipe Suggestion", priority |-> 3,
              text |-> [template |-> "Try making: {}", name |-> "",
                        params |-> << RECIPE_SUGGESTIONS[category_name][1],
                                      RECIPE_SUGGESTIONS[category_name][2] >>]] >>
     ELSE <<>>)

\* C13: the returned list is the tier entries, then a Preserve entry
\* (priority 2, first two preservation methods) iff the category name is a key
\* of the preservation table, then a Recipe Suggestion entry (priority 3, first
\* two recipes) iff it is a key of the recipe table; Fish and Grains get a
\* Preserve entry only, a category in neither table gets nothing.
C13_CategoryEntries ==
    last = "generate_recommendations" =>
        LET n == Len(TierEntries(ret.val))
            c == food_item.category.category_name
        IN  /\ ret.exc = ""
            /\ DOMAIN PRESERVATION_METHODS = PreservationKeys
            /\ DOMAIN RECIPE_SUGGESTIONS = RecipeKeys
            /\ SubSeq(ret.val, 1, n) = TierEntries(ret.val)
            /\ SubSeq(ret.val, n + 1, Len(ret.val)) = CategoryTable(c)
            /\ c \in {"Fish", "Grains"} =>
                   /\ Len(ret.val) = n + 1
                   /\ ret.val[n + 1].type = "Preserve"
            /\ c \notin PreservationKeys \cup RecipeKeys => Len(ret.val) = n

C13_Witness ==
    /\ last = "generate_recommendations"
    /\ food_item.category.category_name = "Fish"
    /\ Len(ret.val) = 2
    /\ ret.val[1].type = "Use Soon"
    /\ ret.val[2].type = "Preserve"
    /\ ret.val[2].text.params = <<"Freeze immediately if not using within 24 hours",
                                  "Cook and use in salads or pasta">>

\* the shelf-life sub-risk of the item if it expired d days from today
ShelfLifeRiskAt(item, d) ==
    _calculate_shelf_life_risk([item EXCEPT !.expiry_date = Some(today + d)]).val

\* C16: holding everything else fixed, the shelf-life sub-risk is
\* non-increasing in daysUntilExpiry: d1 <= d2 implies risk(d1) >= risk(d2).
C16_ShelfLifeMonotone ==
    ScoredActive /\ days_until_expiry(food_item) # None =>
        LET d1 == days_until_expiry(food_item)[1]
        IN  /\ ret.shelf_life_risk = ShelfLifeRiskAt(food_item, d1)
            /\ \A d2 \in d1..MaxShelfDay :
                   ret.shelf_life_risk >= ShelfLifeRiskAt(food_item, d2)

\* a step down: 30 on day 20, 10 on day 21
C16_Witness ==
    /\ ScoredActive
    /\ days_until_expiry(food_item) = Some(20)
    /\ ret.shelf_life_risk = 30
    /\ ShelfLifeRiskAt(food_item, 21) = 10

\* C20: each of the four sub-risks is within [0, 100]; for every Active item
\* the unclamped weighted sum lies between 12 and 92, and the final clamp
\* min(100, max(0, x)) does not change it.
C20_ClampIsIdle ==
    ScoredActive =>
        LET x == WeightedSum(ret.shelf_life_risk, ret.consumption_risk,
                             ret.quantity_risk, ret.perishability_risk)
        IN  /\ ret.exc = ""
            /\ ret.shelf_life_risk \in 0..100
            /\ ret.consumption_risk \in 0..100
            /\ ret.quantity_risk \in 0..100
            /\ ret.perishability_risk \in 0..100
            /\ ~FLess(x, FInt(12))
            /\ ~FLess(FInt(92), x)
            /\ Clamp(x) = x
            /\ ret.val = x

\* the lowest score: far from expiry, nothing left, barely perishable
C20_Witness ==
    /\ ScoredActive
    /\ ret.shelf_life_risk = 10 /\ ret.consumption_risk = 20
    /\ ret.quantity_risk = 0 /\ ret.perishability_risk = 20
    /\ ret.val = FInt(12)

\* the level and the colour of a score of h hundredths
LevelTable(h) == IF h < 4000 THEN "Low" ELSE IF h < 7000 THEN "Medium" ELSE "High"

ColourOf(level) ==
    CASE level = "High" -> "danger"
      [] level = "Medium" -> "warning"
      [] level = "Low" -> "success"

\* C15: get_risk_level is Low for score < 40, Medium for 40 <= score < 70 and
\* High for score >= 70, and get_risk_color agrees with it on every score:
\* danger iff High, warning iff Medium, success iff Low.
C15_LevelAndColour ==
    /\ last = "get_risk_level" =>
           /\ ret = Return(LevelTable(args[1]))
           /\ get_risk_color(FHundredths(args[1])) = Return(ColourOf(ret.val))
    /\ last = "get_risk_color" =>
           /\ ret = Return(ColourOf(LevelTable(args[1])))
           /\ ret.val = ColourOf(get_risk_level(FHundredths(args[1])).val)

\* 70 exactly is red, and High
C15_Witness ==
    /\ last = "get_risk_color"
    /\ args = Some(7000)
    /\ ret.val = "danger"
    /\ get_risk_level(FHundredths(7000)).val = "High"

\* Active, Low perishability, 25 days to go, 5 of 100 left, eaten at 5 a day
IsLowRiskScenario ==
    /\ food_item.status = "Active"
    /\ food_item.category.perishability_level = "Low"
    /\ days_until_expiry(food_item) = Some(25)
    /\ food_item.quantity = 500
    /\ food_item.initial_quantity = 10000
    /\ consumption_rate(food_item) = Return(FInt(5))

\* C17: the item of the scenario gets the sub-risks 10, 20, 5, 20 and the
\* score 13, is in the Low risk level, and with that score
\* generate_recommendations emits the low tier: one Use Soon entry of priority
\* 3 praising the consumption, and no other tier entry.
C17_LowRiskScenario ==
    IsLowRiskScenario =>
        /\ last = "calculate_waste_risk" =>
               /\ ret.exc = ""
               /\ ret.shelf_life_risk = 10 /\ ret.consumption_risk = 20
               /\ ret.quantity_risk = 5 /\ ret.perishability_risk = 20
               /\ ret.val = FInt(13)
               /\ Numeric(ret.val) = 1300
               /\ get_risk_level(ret.val) = Return("Low")
        /\ last = "get_risk_level" /\ args = Some(1300) => ret = Return("Low")
        /\ last = "generate_recommendations" /\ food_item.waste_risk_score = 1300 =>
               /\ ret.exc = ""
               /\ TierEntries(ret.val) =
                      << [type |-> "Use Soon", priority |-> 3,
                          text |-> [template |-> "{} is being consumed well",
                                    name |-> food_item.item_name, params |-> <<>>]] >>
               /\ EntriesOfTier(TierEntries(ret.val)) = {"low"}

\* scored 13, then advised
C17_Witness ==
    /\ IsLowRiskScenario
    /\ food_item.waste_risk_score = 1300
    /\ Len(calls) = 2
    /\ calls[1].fn = "calculate_waste_risk"
    /\ calls[1].ret.val = FInt(13)
    /\ calls[2].fn = "generate_recommendations"
    /\ Len(TierEntries(ret.val)) = 1

PureFunctions ==
    {"calculate_waste_risk", "should_generate_alert", "get_alert_message",
     "generate_recommendations"}

\* two scorings of the same item on the same date return the same
SameScoreAgain(c) ==
    \A i, j \in DOMAIN c :
        /\ c[i].fn = "calculate_waste_risk"
        /\ c[j].fn = "calculate_waste_risk"
        /\ c[i].item = c[j].item
        /\ c[i].date = c[j].date
        => c[i].ret = c[j].ret

Before == calls[Len(calls)].db

\* the alerts calculate_risk added
Created == {k \in DOMAIN db.alerts : k > Len(Before.alerts)}

TypeTable(d, score) ==
    IF d < 0 THEN "Expired"
    ELSE IF d <= 3 THEN "Expiring Soon"
    ELSE IF score >= 7000 THEN "High Risk"
    ELSE "Medium Risk"

HadUnread(i) ==
    \E k \in DOMAIN Before.alerts :
        Before.alerts[k].food_item_id = i /\ ~Before.alerts[k].is_read

\* C14: an alert created by calculate_risk is of type Expired if
\* daysUntilExpiry < 0, else Expiring Soon if daysUntilExpiry <= 3, else High
\* Risk if the score is >= 70, else Medium Risk; an Active item with
\* daysUntilExpiry = -1 has shelf-life sub-risk 100 and consumption sub-risk
\* 100, and its alert is of type Expired.
C14_AlertType ==
    last = "calculate_risk" =>
        /\ \A k \in Created :
               db.alerts[k].alert_type =
                   TypeTable(days_until_expiry(db.items[db.alerts[k].food_item_id])[1],
                             db.items[db.alerts[k].food_item_id].waste_risk_score)
        /\ \A i \in DOMAIN ret.frames :
               days_until_expiry(db.items[i]) = Some(-1) =>
                   /\ db.items[i].status = "Active"
                   /\ ret.frames[i].shelf_life_risk = 100
                   /\ ret.frames[i].consumption_risk = 100
                   /\ \A k \in Created :
                          db.alerts[k].food_item_id = i => db.alerts[k].alert_type = "Expired"
                   /\ ~HadUnread(i) => \E k \in Created : db.alerts[k].food_item_id = i

\* one run that creates an alert of three of the types
C14_Witness ==
    /\ last = "calculate_risk"
    /\ Before.alerts = <<>>
    /\ days_until_expiry(db.items[3]) = Some(-1)
    /\ 3 \in DOMAIN ret.frames
    /\ ret.frames[3].shelf_life_risk = 100
    /\ {db.alerts[k].alert_type : k \in Created} = {"Expired", "High Risk", "Medium Risk"}

\* the alerts of an item, oldest first
AlertsFor(rows, i) == SelectSeq(rows.alerts, LAMBDA a : a.food_item_id = i)

Ascending(ids) == CHOOSE o \in Orders(ids) : \A i, j \in DOMAIN o : i < j => o[i] < o[j]

\* the tables with nothing but item i to work on
Alone(rows, i) ==
    [items |-> [j \in DOMAIN rows.items |->
                   IF j = i THEN rows.items[j]
                   ELSE [rows.items[j] EXCEPT !.status = "Consumed"]],
     alerts |-> AlertsFor(rows, i)]

\* the same score and the same alerts for item i
SameFor(rows, other, i) ==
    /\ rows.items[i] = other.items[i]
    /\ AlertsFor(rows, i) = AlertsFor(other, i)

Unread(rows, i) ==
    {k \in DOMAIN rows.alerts : rows.alerts[k].food_item_id = i /\ ~rows.alerts[k].is_read}

\* should_generate_alert on the stored score, in hundredths
AlertDue(item) ==
    item.waste_risk_score >= 4000 \/ days_until_expiry(item)[1] <= 3

\* C21: after any sequence of calculate_risk runs and mark_alert_read requests
\* every food item has at most one unread alert; calculate_risk creates an
\* alert for an item only when should_generate_alert holds and the item had no
\* unread alert, so another one is created only after the first was read.
C21_OneUnreadAlert ==
    /\ \A i \in DOMAIN db.items : Cardinality(Unread(db, i)) <= 1
    /\ last = "calculate_risk" =>
           \A k \in Created :
               /\ Unread(Before, db.alerts[k].food_item_id) = {}
               /\ AlertDue(db.items[db.alerts[k].food_item_id])
               /\ \A j \in Created : db.alerts[j].food_item_id = db.alerts[k].food_item_id => j = k

\* alerted, read, alerted again
C21_Witness ==
    /\ Len(calls) = 3
    /\ calls[1].fn = "calculate_risk"
    /\ calls[2].fn = "mark_alert_read"
    /\ calls[3].fn = "calculate_risk"
    /\ Len(db.alerts) = 2
    /\ db.alerts[1].food_item_id = 1 /\ db.alerts[1].is_read
    /\ db.alerts[2].food_item_id = 1 /\ ~db.alerts[2].is_read

\* the messages an alert of a type may carry
MessagesOf(alert_type) ==
    CASE alert_type = "Expired" -> {"{} has expired!"}
      [] alert_type = "Expiring Soon" -> {"{} expires today!", "{} expires in {} days"}
      [] alert_type = "High Risk" -> {"{} is at high risk of waste"}
      [] alert_type = "Medium Risk" -> {"{} needs attention"}

\* C22: every alert created by calculate_risk has a type consistent with its
\* message and score: Expired carries the expired message, Expiring Soon the
\* expires-today or expires-in-N-days message, High Risk the high-risk message
\* with score >= 70, Medium Risk the needs-attention message with
\* 40 <= score < 70 and daysUntilExpiry > 3; the status-update message is
\* never stored.
C22_TypeAndMessage ==
    last = "calculate_risk" =>
        \A k \in Created :
            LET alert == db.alerts[k]
                item == db.items[alert.food_item_id]
            IN  /\ alert.alert_message.template \in MessagesOf(alert.alert_type)
                /\ alert.alert_message.template # "{} status update"
                /\ alert.alert_message.name = item.item_name
                /\ alert.alert_type = "Expired" => days_until_expiry(item)[1] < 0
                /\ alert.alert_type = "Expiring Soon" =>
                       /\ days_until_expiry(item)[1] \in 0..3
                       /\ alert.alert_message.template = "{} expires today!"
                              <=> days_until_expiry(item)[1] <= 1
                /\ alert.alert_type = "High Risk" => item.waste_risk_score >= 7000
                /\ alert.alert_type = "Medium Risk" =>
                       /\ item.waste_risk_score >= 4000
                       /\ item.waste_risk_score < 7000
                       /\ days_until_expiry(item)[1] > 3

\* a High Risk alert and a Medium Risk alert of one run
C22_Witness ==
    /\ last = "calculate_risk"
    /\ \E k \in Created :
          /\ db.alerts[k].alert_type = "High Risk"
          /\ db.alerts[k].alert_message.template = "{} is at high risk of waste"
          /\ db.items[db.alerts[k].food_item_id].waste_risk_score = 7700
    /\ \E k \in Created :
          /\ db.alerts[k].alert_type = "Medium Risk"
          /\ db.alerts[k].alert_message.template = "{} needs attention"
          /\ db.items[db.alerts[k].food_item_id].waste_risk_score = 5900

\* C30: every Active item that is already expired has score >= 70 and the
\* risk level High, whatever its quantities, consumption rate and
\* perishability are; whenever calculate_risk would type the alert of the
\* item Expired, the score of the same run is not rated Low or Medium.
C30_ExpiredIsHigh ==
    ScoredActive =>
        LET d == days_until_expiry(food_item)
        IN  /\ d # None /\ d[1] < 0 =>
                   /\ ret.exc = ""
                   /\ ~FLess(ret.val, FInt(70))
                   /\ Numeric(ret.val) >= 7000
                   /\ get_risk_level(ret.val) = Return("High")
            /\ ret.exc = "" /\ AlertType(ret.val, d) = Return("Expired") =>
                   get_risk_level(ret.val).val \notin {"Low", "Medium"}

\* the lowest expired score: nothing bought, nothing left, low perishability
C30_Witness ==
    /\ ScoredActive
    /\ days_until_expiry(food_item) = Some(-1)
    /\ food_item.initial_quantity = 0
    /\ food_item.category.perishability_level = "Low"
    /\ Numeric(ret.val) = 7200
    /\ AlertType(ret.val, days_until_expiry(food_item)) = Return("Expired")
    /\ get_risk_level(ret.val) = Return("High")

\* the score frame of the item if it expired d days from today
ScoreAt(item, d) == calculate_waste_risk([item EXCEPT !.expiry_date = Some(today + d)])

\* C29: holding status Active, quantities, consumption rate, days since
\* purchase and perishability fixed, the total score is non-increasing in
\* daysUntilExpiry: d1 <= d2 implies score(d1) >= score(d2), and so are the
\* shelf-life and the consumption sub-risk.
C29_ScoreMonotone ==
    ScoredActive /\ days_until_expiry(food_item) # None =>
        \A d2 \in days_until_expiry(food_item)[1]..MaxShelfDay :
            \A later \in {ScoreAt(food_item, d2)} :
                /\ ret.exc = "" /\ later.exc = ""
                /\ ~FLess(ret.val, later.val)
                /\ ret.shelf_life_risk >= later.shelf_life_risk
                /\ ret.consumption_risk >= later.consumption_risk
                /\ ret.quantity_risk = later.quantity_risk
                /\ ret.perishability_risk = later.perishability_risk

\* a strict drop of both sub-risks and of the score between day 4 and day 7
C29_Witness ==
    /\ ScoredActive
    /\ days_until_expiry(food_item) = Some(4)
    /\ food_item.quantity = 35
    /\ food_item.consumption_logs = <<28>>
    /\ today - food_item.purchase_date = MaxAge
    /\ \A later \in {ScoreAt(food_item, 7)} :
          /\ ret.shelf_life_risk > later.shelf_life_risk
          /\ ret.consumption_risk > later.consumption_risk
          /\ FLess(later.val, ret.val)

(***************************************************************************)
(* Properties of the stock routes, under SpecStock.                        *)
(***************************************************************************)
LogRoutes == {"log_consumption", "quick_log"}

\* the item and the quantity a consumption request names
RequestedItem(fn, a) == IF fn = "log_consumption" THEN a[1].food_item_id ELSE a[1]

RequestedAmount(fn, a) == IF fn = "log_consumption" THEN a[1].quantity_consumed ELSE a[2]

\* the quantity is a number that is <= 0 or more than the item has
OutOfStock(rows, item_id, quantity_consumed) ==
    /\ quantity_consumed # None
    /\ \/ quantity_consumed[1] <= 0
       \/ /\ item_id \in DOMAIN rows.items
          /\ quantity_consumed[1] > 10 * rows.items[item_id].quantity

\* C23: a consumption log request (log_consumption or quick_log) whose
\* quantity is <= 0 or greater than the item's available quantity is rejected
\* and leaves the item's quantity, its status and the set of consumption logs
\* unchanged.
C23_OutOfStockRejected ==
    [][ last' \in LogRoutes
        /\ OutOfStock(db, RequestedItem(last', args'), RequestedAmount(last', args'))
        => /\ ret'.exc # ""
           /\ db'.items = db.items
           /\ db'.logs = db.logs ]_vars

\* log_consumption of 2.000 on item 1 that has 1.00
C23_Witness ==
    /\ last = "log_consumption"
    /\ args[1].food_item_id = 1
    /\ args[1].quantity_consumed = Some(2000)
    /\ ret.exc = "Consumed quantity cannot exceed available quantity"
    /\ db.items[1].quantity = 100
    /\ db.items[1].status = "Active"
    /\ db.logs = <<LogOf(2, 50)>>

\* C24: in every state reachable by add_food_item, edit_food_item,
\* log_consumption, quick_log, delete_consumption_log and mark_wasted, every
\* stored food item has quantity >= 0 and initial_quantity > 0.
C24_QuantitiesPositive ==
    \A i \in DOMAIN db.items :
        /\ db.items[i].quantity >= 0
        /\ db.items[i].initial_quantity > 0

\* no quantity is negative, and an initial quantity is 0 only if less than
\* half a hundredth was typed into add_food_item
C24_NotNegative ==
    \A i \in DOMAIN db.items :
        /\ db.items[i].quantity >= 0
        /\ db.items[i].initial_quantity >= 0
        /\ db.items[i].initial_quantity = 0 =>
               \E k \in DOMAIN calls :
                   /\ calls[k].fn = "add_food_item" /\ calls[k].id = i
                   /\ calls[k].args[1].quantity[1] \in 1..4

\* add_food_item of 0.004 stores an item with 0.00 of 0.00
C24_Witness ==
    /\ last = "add_food_item"
    /\ args[1].quantity = Some(4)
    /\ ret.exc = ""
    /\ db.items[3].status = "Active"
    /\ db.items[3].quantity = 0
    /\ db.items[3].initial_quantity = 0

\* C25: in every state reachable by add_food_item, edit_food_item,
\* log_consumption, quick_log, delete_consumption_log and mark_wasted, every
\* stored food item satisfies quantity <= initial_quantity.
C25_AtMostInitial ==
    \A i \in DOMAIN db.items : db.items[i].quantity <= db.items[i].initial_quantity

\* edit_food_item of 2.000 on item 1, bought as 1.00
C25_Witness ==
    /\ last = "edit_food_item"
    /\ args[1] = 1
    /\ args[2].quantity = Some(2000)
    /\ ret.exc = ""
    /\ db.items[1].quantity = 200
    /\ db.items[1].initial_quantity = 100

\* the served request before the last one
Earlier == calls[Len(calls) - 1]

\* The last two served requests are a log on an Active item and the delete
\* of that log.
LoggedThenDeleted ==
    /\ last = "delete_consumption_log" /\ ret.exc = ""
    /\ Len(calls) >= 2
    /\ Earlier.fn \in LogRoutes
    /\ Earlier.before.items[Earlier.id].status = "Active"
    /\ args[1] = Earlier.before.seq.logs

\* The last request is a served log on an Active item.
Logged ==
    /\ last \in LogRoutes /\ ret.exc = ""
    /\ calls[Len(calls)].before.items[calls[Len(calls)].id].status = "Active"

\* what the log and its delete did to the item
RoundTrip(typed(_)) ==
    /\ Logged /\ typed(RequestedAmount(last, args)[1]) =>
           LET item_id == calls[Len(calls)].id
               was == calls[Len(calls)].before.items[item_id]
           IN  RequestedAmount(last, args)[1] = 10 * was.quantity =>
                   /\ db.items[item_id].status = "Consumed"
                   /\ db.items[item_id].quantity = 0
    /\ LoggedThenDeleted /\ typed(RequestedAmount(Earlier.fn, Earlier.args)[1]) =>
           LET was == Earlier.before.items[Earlier.id]
           IN  /\ db.items[Earlier.id].quantity = was.quantity
               /\ db.items[Earlier.id].status = "Active"

AnyAmount(t) == TRUE

WholeHundredths(t) == t % 10 = 0

\* C26: logging a consumption c (0 < c <= quantity) on an Active item and
\* then deleting that log restores the item's quantity and leaves it Active:
\* a log that consumes the whole quantity sets status Consumed with quantity
\* 0, and deleting that log sets the quantity back to c and the status back
\* to Active.
C26_LogThenDelete == RoundTrip(AnyAmount)

\* the round trip of a quantity of whole hundredths
C26_WholeHundredths == RoundTrip(WholeHundredths)

\* 0.005 logged on item 1 that has 1.00, the log deleted: item 1 has 1.01
C26_Witness ==
    /\ LoggedThenDeleted
    /\ Earlier.id = 1
    /\ RequestedAmount(Earlier.fn, Earlier.args) = Some(5)
    /\ Earlier.before.items[1].quantity = 100
    /\ calls[Len(calls)].before.items[1].quantity = 100
    /\ calls[Len(calls)].before.logs[args[1]].quantity_consumed = 1
    /\ db.items[1].quantity = 101
    /\ db.items[1].status = "Active"

RECURSIVE SumOver(_, _)
SumOver(table, ids) ==
    IF ids = {} THEN 0
    ELSE LET k == CHOOSE k \in ids : TRUE
         IN  table[k].quantity_consumed + SumOver(table, ids \ {k})

\* the item was changed by log_consumption, quick_log and
\* delete_consumption_log only
OnlyLogged(item_id) ==
    \A k \in DOMAIN calls :
        calls[k].id = item_id => calls[k].fn \notin {"edit_food_item", "mark_wasted"}

Balanced(typed(_)) ==
    \A i \in DOMAIN db.items :
        /\ OnlyLogged(i)
        /\ \A k \in DOMAIN calls :
               calls[k].fn \in LogRoutes /\ calls[k].id = i =>
                   typed(RequestedAmount(calls[k].fn, calls[k].args)[1])
        => db.items[i].quantity + SumOver(db.logs, Of(db.logs, i))
               = db.items[i].initial_quantity

\* C27: for an item that is changed only by log_consumption, quick_log and
\* delete_consumption_log after it was added (no edit_food_item, no
\* mark_wasted), quantity + the sum of quantity_consumed over its existing
\* consumption logs equals initial_quantity in every reachable state.
C27_Balance == Balanced(AnyAmount)

\* the balance of the items whose logs are of whole hundredths
C27_WholeHundredths == Balanced(WholeHundredths)

\* 0.005 logged on item 1, bought as 1.00: 1.00 is left and 0.01 is logged
C27_Witness ==
    /\ last = "quick_log"
    /\ args = <<1, Some(5)>>
    /\ ret.exc = ""
    /\ calls[1].fn = "quick_log"
    /\ db.items[1].initial_quantity = 100
    /\ db.items[1].quantity = 100
    /\ SumOver(db.logs, Of(db.logs, 1)) = 1

\* the request names an item, a log or an alert of a household of someone else
Foreign(fn, a, rows) ==
    CASE fn \in {"edit_food_item", "delete_food_item", "mark_wasted", "quick_log"} ->
             /\ a[1] \in DOMAIN rows.items
             /\ rows.items[a[1]].household_id \notin OwnedHouseholds
      [] fn = "log_consumption" ->
             /\ a[1].food_item_id \in DOMAIN rows.items
             /\ rows.items[a[1].food_item_id].household_id \notin OwnedHouseholds
      [] fn = "delete_consumption_log" ->
             /\ a[1] \in DOMAIN rows.logs
             /\ rows.items[rows.logs[a[1]].food_item_id].household_id \notin OwnedHouseholds
      [] fn = "mark_alert_read" ->
             /\ a[1] \in DOMAIN rows.alerts
             /\ rows.alerts[a[1]].household_id \notin OwnedHouseholds
      [] OTHER -> FALSE

Denials == {"Access denied.", "Access denied", "Please select a valid food item."}

\* C28: a mutating request on a food item, consumption log or alert that
\* belongs to a household of a different user (edit_food_item,
\* delete_food_item, mark_wasted, quick_log, log_consumption,
\* delete_consumption_log, mark_alert_read) is denied and leaves every item,
\* log, waste record and alert unchanged.
C28_ForeignDenied ==
    [][ Foreign(last', args', db) => ret'.exc \in Denials /\ db' = db ]_vars

\* mark_wasted on item 2, which is of someone else
C28_Witness ==
    /\ last = "mark_wasted"
    /\ args = <<2>>
    /\ ret.exc = "Access denied."
    /\ db.items[2] = Milk(50, 100, 2, "Active")
    /\ db.waste_records = <<>>

====
